---- MODULE Spec2Model ----
(***************************************************************************)
(* Email-driven account state engine: fleet scanner, stage detector, rule  *)
(* classifier, classification pipeline and SSE event bus.                  *)
(*                                                                         *)
(* Confidence values are fixed-point numbers in units of 1/10000, so that  *)
(* 0.7 is 7000, 0.855 is 8550 and 1.0 is 10000.                            *)
(***************************************************************************)
EXTENDS Integers, Sequences, FiniteSets, Bags, TLC

(***************************************************************************)
(* Bounds of the model.                                                    *)
(***************************************************************************)
\* messages delivered to all mailboxes together, and scans started through
\* POST /scan, in the specification of overlapping scans (Spec)
MaxMsgs == 2
MaxScans == 2
\* the same in the specification of a single scan (SoloSpec, BusSpec)
SoloMsgs == 1
SoloScans == 1
\* rows of accounts in the repository before the first scan
FleetSize == 6
\* messages delivered in the specification of the template cache (CacheSpec)
CacheMsgs == 2
\* repository calls that raise (HTTP error from PostgREST)
MaxFaults == 1
\* messages delivered and analyze_email / update_analysis requests in the
\* pipeline specification (PipeSpec)
PipeMsgs == 2
BatchMsgs == 2
BatchCalls == 2
MaxReqs == 3
\* chunks of a subject given to normalize_subject
MaxChunks == 2
\* message headers given to the stage detector
MaxHeaders == 3

(***************************************************************************)
(* stage_detector.py: stage ranks.                                         *)
(***************************************************************************)
Stages ==
    {"REGISTERED", "IDENTITY_VERIFIED", "BGC_PENDING", "BGC_CLEAR",
     "BGC_CONSIDER", "ACTIVE", "DEACTIVATED"}

STAGE_PRIORITY ==
    [s \in Stages |->
        CASE s = "REGISTERED" -> 0
          [] s = "IDENTITY_VERIFIED" -> 1
          [] s = "BGC_PENDING" -> 2
          [] s = "BGC_CLEAR" -> 3
          [] s = "BGC_CONSIDER" -> 4
          [] s = "ACTIVE" -> 5
          [] s = "DEACTIVATED" -> 6]

(***************************************************************************)
(* The messages of the model.  A message kind stands for one concrete      *)
(* (subject, sender, body); the pattern banks of the detector and of the   *)
(* classifier are given by the kinds whose lower-cased subject, sender or  *)
(* body they match.                                                        *)
(***************************************************************************)
Kinds == {"deact", "react", "pay", "bgc_ok", "bgc_adv", "pending", "idv",
          "note", "meet", "viol", "tax", "num", "weekly", "both"}

Subject(k) ==
    CASE k = "deact" -> "Your Dasher Account Has Been Deactivated"
      [] k = "react" -> "Welcome back"
      [] k = "pay" -> "Payment processed"
      [] k = "bgc_ok" -> "Your background check is complete"
      [] k = "bgc_adv" -> "Your background check is complete"
      [] k = "pending" -> "Your background check is taking longer"
      [] k = "idv" -> "Identity verified"
      [] k = "note" -> "Quick note"
      [] k = "meet" -> "Meeting tomorrow at 3pm"
      [] k = "viol" -> "Contract violation notice"
      [] k = "tax" -> "Your 1099 is ready"
      [] k = "num" -> "Your 5555 is ready"
      [] k = "weekly" -> "Your weekly pay is ready"
      [] k = "both" -> "Your account was reactivated after deactivation review"

Sender(k) ==
    CASE k \in {"deact", "react", "pay", "note", "viol", "tax", "num", "weekly",
                "both"} ->
             "noreply@doordash.com"
      [] k \in {"bgc_ok", "bgc_adv", "pending", "idv"} -> "checkr@checkr.com"
      [] k = "meet" -> "colleague@company.com"

Body(k) ==
    CASE k = "bgc_ok" -> "Everything looks good"
      [] k = "bgc_adv" -> "this may affect eligibility"
      [] OTHER -> ""

\* _REACTIVATION_PATTERNS: "welcome\s+back" matches "welcome back" and
\* "account.*reactivat" matches "account was reactivated ..."
ReactivationMatch == {"react", "both"}
\* _DEACTIVATION_PATTERNS: "dasher\s+account\s+has\s+been\s+deactivated", and
\* "account.*deactivat" matches "account was reactivated after deactivation"
DeactivationMatch == {"deact", "both"}
\* _ACTIVE_PATTERNS: "payment\s+processed"; none of the eight patterns
\* matches "your weekly pay is ready"
ActiveMatch == {"pay"}
\* _BGC_COMPLETE_PATTERN: "(?:background\s+check|bgc)\s+is\s+complete"
BgcCompleteMatch == {"bgc_ok", "bgc_adv"}
\* _BGC_PENDING_PATTERNS: "(?:background\s+check|bgc)\s+is\s+taking\s+longer"
BgcPendingMatch == {"pending"}
\* _BGC_GENERIC_PATTERN and _COMPLETE_PATTERN
BgcGenericMatch == {"bgc_ok", "bgc_adv", "pending"}
CompleteMatch == {"bgc_ok", "bgc_adv"}
\* _IDENTITY_VERIFIED_PATTERNS: "identity.*verified"
IdentityVerifiedMatch == {"idv"}
\* BGC_VENDORS: a vendor name occurs in the sender
BgcVendorSender == {"bgc_ok", "bgc_adv", "pending", "idv"}
\* _BGC_CONSIDER_BODY_PATTERNS: "may\s+affect\s+eligibility"
BgcConsiderBodyMatch == {"bgc_adv"}

_is_bgc_vendor(k) == k \in BgcVendorSender

\* no subject is an active signal
_is_active_signal_Never(k) == FALSE

_is_active_signal(k) == k \in ActiveMatch

_is_bgc_pending_signal(k) ==
    IF ~_is_bgc_vendor(k) THEN FALSE
    ELSE IF k \in BgcPendingMatch THEN TRUE
    ELSE IF k \in BgcGenericMatch /\ k \notin CompleteMatch THEN TRUE
    ELSE FALSE

_is_identity_verified_signal(k) == k \in IdentityVerifiedMatch

\* every body read as adverse
check_bgc_body_Adverse(k) == "BGC_CONSIDER"

check_bgc_body(k) ==
    IF k \in BgcConsiderBodyMatch THEN "BGC_CONSIDER" ELSE "BGC_CLEAR"

(***************************************************************************)
(* A message header as the mail client returns it: id, kind and date.      *)
(* _sort_messages_by_date: stable sort, newest first.                      *)
(***************************************************************************)
RECURSIVE InsertByDate(_, _)
InsertByDate(sorted, m) ==
    IF sorted = <<>> THEN <<m>>
    ELSE IF Head(sorted).date >= m.date
         THEN <<Head(sorted)>> \o InsertByDate(Tail(sorted), m)
         ELSE <<m>> \o sorted

RECURSIVE _sort_messages_by_date(_)
_sort_messages_by_date(messages) ==
    IF messages = <<>> THEN <<>>
    ELSE InsertByDate(
             _sort_messages_by_date(SubSeq(messages, 1, Len(messages) - 1)),
             messages[Len(messages)])

NoTrigger == 0

DetectInit ==
    [stage |-> "REGISTERED", trigger |-> NoTrigger, needs_body_check |-> <<>>,
     reactivated |-> FALSE, returned |-> FALSE]

\* one iteration of the loop of detect_stage_from_messages
DetectStep(d, msg) ==
    LET k == msg.kind
        promote(st) ==
            IF STAGE_PRIORITY[st] > STAGE_PRIORITY[d.stage]
            THEN [d EXCEPT !.stage = st, !.trigger = msg.id]
            ELSE d
    IN  IF d.returned THEN d
        ELSE IF k \in ReactivationMatch
             THEN [promote("ACTIVE") EXCEPT !.reactivated = TRUE]
        ELSE IF k \in DeactivationMatch
             THEN IF ~d.reactivated
                  THEN [stage |-> "DEACTIVATED", trigger |-> msg.id,
                        needs_body_check |-> <<>>, reactivated |-> FALSE,
                        returned |-> TRUE]
                  ELSE d
        ELSE IF _is_active_signal(k) THEN promote("ACTIVE")
        ELSE IF k \in BgcCompleteMatch
             THEN [promote("BGC_CLEAR") EXCEPT
                      !.needs_body_check = Append(d.needs_body_check, msg)]
        ELSE IF _is_bgc_pending_signal(k) THEN promote("BGC_PENDING")
        ELSE IF _is_identity_verified_signal(k) THEN promote("IDENTITY_VERIFIED")
        ELSE d

RECURSIVE DetectLoop(_, _)
DetectLoop(d, sorted) ==
    IF sorted = <<>> THEN d
    ELSE DetectLoop(DetectStep(d, Head(sorted)), Tail(sorted))

\* the detector without the sort: messages taken in the order given
detect_stage_with_metadata_Unsorted(messages) ==
    DetectLoop(DetectInit, messages)

detect_stage_with_metadata(messages) ==
    DetectLoop(DetectInit, _sort_messages_by_date(messages))

detect_stage_from_messages(messages) ==
    LET d == detect_stage_with_metadata(messages)
    IN  [stage |-> d.stage, trigger |-> d.trigger,
         needs_body_check |-> d.needs_body_check]

(***************************************************************************)
(* email_classifier.py: the rule classifier.  Each rule's pattern is given *)
(* by the kinds it matches.                                                *)
(***************************************************************************)
\* r"dasher\s+account\s+has\s+been\s+deactivated" on the subject
ClsDeactivationMatch == {"deact"}
\* r"reactivat" on the subject ("Welcome back" does not contain it)
ClsReactivatMatch == {"both"}
\* r"dasher" on the subject
ClsDasherSubject == {"deact"}
\* r"doordash" on the sender
ClsDoordashSender ==
    {"deact", "react", "pay", "note", "viol", "tax", "num", "weekly", "both"}
\* r"contract\s+violation|violation\s+notice"
ClsViolationMatch == {"viol"}
\* r"rating" together with r"warning|low|risk"
ClsLowRatingMatch == {}
\* _RE_BGC_COMPLETE on the subject
ClsBgcCompleteMatch == {"bgc_ok", "bgc_adv"}
\* _RE_BGC_CONSIDER on the body: "could potentially impact", "(record|item)
\* ... (found|flagged)", "adverse ... (action|finding)"
ClsBgcConsiderBody == {}
\* _RE_CHECKR_SENDER
ClsCheckrSender == {"bgc_ok", "bgc_adv", "pending", "idv"}
\* _RE_BGC_PENDING, _RE_MORE_INFO, _RE_BGC_SUBMITTED, r"complete",
\* _RE_IDENTITY_VERIFIED, _RE_CHECKR_CONSENT on the subject
ClsBgcPendingMatch == {"pending"}
ClsMoreInfoMatch == {}
ClsBgcSubmittedMatch == {"pending"}
ClsCompleteMatch == {"bgc_ok", "bgc_adv"}
ClsIdentityVerifiedMatch == {"idv"}
ClsCheckrConsentMatch == {}
\* r"welcome" on the subject
ClsWelcomeMatch == {"react"}
\* r"account.*activat" and r"deactivat" on the subject
ClsAccountActivatMatch == {"deact", "both"}
ClsDeactivatMatch == {"deact", "both"}
\* the earnings, operational, insurance, scheduling and equipment rules
\* r"(?:your\s+)?weekly\s+(?:pay|earnings)|pay\s+statement"
ClsWeeklyPayMatch == {"weekly"}
ClsDirectDepositMatch == {}
ClsEarningsSummaryMatch == {}
ClsTaxMatch == {"tax"}
ClsFirstDashMatch == {}
ClsDashOpportunityMatch == {}
ClsRatingUpdateMatch == {}
ClsPolicyMatch == {}
ClsSurveyMatch == {}
ClsPromotionMatch == {}
ClsPaymentMatch == {"pay"}
ClsInsuranceMatch == {}
ClsSchedulingMatch == {}
ClsEquipmentMatch == {}

CONFIDENCE_THRESHOLD == 7000

Min(a, b) == IF a < b THEN a ELSE b
Max(a, b) == IF a > b THEN a ELSE b

_score_confidence(base, match_type) ==
    IF match_type = "exact" THEN Min(10000, Max(7000, base))
    ELSE IF match_type = "regex"
         THEN IF base >= 9000 THEN Min(10000, Max(7000, (base * 95) \div 100))
              ELSE Max(7000, base)
    ELSE 7000

None == [none |-> TRUE]

ClassificationResult(cat, sub, conf, urg, act) ==
    [category |-> cat, sub_category |-> sub, confidence |-> conf,
     urgency |-> urg, action_required |-> act]

\* classify_email(subject, sender, body); with_body is FALSE when the
\* caller passes no body (body = "")
classify_email(k, with_body) ==
    IF k \in ClsDeactivationMatch
    THEN ClassificationResult("account", "deactivation", 10000, "critical", TRUE)
    ELSE IF k \in ClsReactivatMatch /\ (k \in ClsDasherSubject \/ k \in ClsDoordashSender)
    THEN ClassificationResult("account", "reactivation",
                              _score_confidence(9000, "regex"), "high", TRUE)
    ELSE IF k \in ClsViolationMatch
    THEN ClassificationResult("warning", "contract_violation",
                              _score_confidence(9500, "exact"), "critical", TRUE)
    ELSE IF k \in ClsLowRatingMatch
    THEN ClassificationResult("warning", "low_rating_warning",
                              _score_confidence(8500, "regex"), "warning", TRUE)
    ELSE IF k \in ClsBgcCompleteMatch
    THEN IF with_body /\ k \in ClsBgcConsiderBody
         THEN ClassificationResult("bgc", "consider",
                                   _score_confidence(10000, "exact"), "high", TRUE)
         ELSE ClassificationResult("bgc", "clear",
                                   _score_confidence(9500, "regex"), "medium", FALSE)
    ELSE IF k \in ClsCheckrSender /\ k \in ClsBgcPendingMatch
    THEN ClassificationResult("bgc", "pending", _score_confidence(9000, "regex"),
                              "medium", k \in ClsMoreInfoMatch)
    ELSE IF k \in ClsCheckrSender /\ k \in ClsBgcSubmittedMatch /\ k \notin ClsCompleteMatch
    THEN ClassificationResult("bgc", "submitted",
                              _score_confidence(8500, "regex"), "low", FALSE)
    ELSE IF k \in ClsCheckrSender /\ k \in ClsIdentityVerifiedMatch
    THEN ClassificationResult("bgc", "identity_verified",
                              _score_confidence(9500, "exact"), "medium", FALSE)
    ELSE IF k \in ClsCheckrSender /\ k \in ClsCheckrConsentMatch
    THEN ClassificationResult("bgc", "submitted",
                              _score_confidence(8000, "regex"), "low", FALSE)
    ELSE IF k \in ClsIdentityVerifiedMatch
    THEN ClassificationResult("bgc", "identity_verified",
                              _score_confidence(9000, "regex"), "medium", FALSE)
    ELSE IF k \in ClsWelcomeMatch /\ (k \in ClsDasherSubject \/ k \in ClsDoordashSender)
    THEN ClassificationResult("account", "welcome",
                              _score_confidence(9000, "regex"), "info", FALSE)
    ELSE IF k \in ClsAccountActivatMatch /\ k \notin ClsDeactivatMatch
    THEN ClassificationResult("account", "activation",
                              _score_confidence(8500, "regex"), "medium", FALSE)
    ELSE IF k \in ClsWeeklyPayMatch
    THEN ClassificationResult("earnings", "weekly_pay",
                              _score_confidence(9500, "exact"), "low", FALSE)
    ELSE IF k \in ClsDirectDepositMatch
    THEN ClassificationResult("earnings", "direct_deposit",
                              _score_confidence(9500, "exact"), "low", FALSE)
    ELSE IF k \in ClsEarningsSummaryMatch
    THEN ClassificationResult("earnings", "earnings_summary",
                              _score_confidence(9000, "regex"), "low", FALSE)
    ELSE IF k \in ClsTaxMatch
    THEN ClassificationResult("earnings", "tax_document",
                              _score_confidence(9500, "exact"), "medium", TRUE)
    ELSE IF k \in ClsFirstDashMatch
    THEN ClassificationResult("earnings", "earnings_summary",
                              _score_confidence(9500, "exact"), "low", FALSE)
    ELSE IF k \in ClsDashOpportunityMatch
    THEN ClassificationResult("operational", "dash_opportunity",
                              _score_confidence(8500, "regex"), "info", FALSE)
    ELSE IF k \in ClsRatingUpdateMatch
    THEN ClassificationResult("operational", "rating_update",
                              _score_confidence(8000, "regex"), "low", FALSE)
    ELSE IF k \in ClsPolicyMatch
    THEN ClassificationResult("operational", "policy_update",
                              _score_confidence(8500, "regex"), "medium", TRUE)
    ELSE IF k \in ClsSurveyMatch
    THEN ClassificationResult("operational", "survey",
                              _score_confidence(7000, "regex"), "info", FALSE)
    ELSE IF k \in ClsPromotionMatch
    THEN ClassificationResult("operational", "promotion",
                              _score_confidence(8000, "regex"), "info", FALSE)
    ELSE IF k \in ClsPaymentMatch
    THEN ClassificationResult("earnings", "direct_deposit",
                              _score_confidence(8000, "regex"), "low", FALSE)
    ELSE IF k \in ClsInsuranceMatch
    THEN ClassificationResult("insurance", "insurance",
                              _score_confidence(8500, "regex"), "medium", FALSE)
    ELSE IF k \in ClsSchedulingMatch
    THEN ClassificationResult("scheduling", "scheduling",
                              _score_confidence(8500, "regex"), "low", FALSE)
    ELSE IF k \in ClsEquipmentMatch
    THEN ClassificationResult("equipment", "equipment",
                              _score_confidence(8500, "regex"), "low", FALSE)
    ELSE IF k \in ClsDoordashSender
    THEN ClassificationResult("unknown", "needs_review", 5000, "low", FALSE)
    ELSE None

classify_with_threshold(k, with_body) ==
    LET result == classify_email(k, with_body)
    IN  IF result = None \/ result.confidence < CONFIDENCE_THRESHOLD
        THEN [result |-> result, needs_ai |-> TRUE]
        ELSE [result |-> result, needs_ai |-> FALSE]

(***************************************************************************)
(* template_fingerprint.py.  A subject is a sequence of chunks of text     *)
(* that are separated by blanks; the subject of a message kind is one      *)
(* chunk, or three when it holds a number.  normalize_subject lower-cases  *)
(* the subject and then replaces, in this order, amounts by $X, dates by   *)
(* DATE, years by YEAR and runs of four or more digits by NUM.  _NAME_RE   *)
(* asks for an upper-case letter and matches nothing in lower-cased text.  *)
(* sender_domain takes the part after "@"; the fingerprint is a digest of  *)
(* "domain|normalised subject", kept here as that pair.                    *)
(***************************************************************************)
normalize_subject(subject) ==
    LET lower(w) ==
            CASE w = "Your Dasher Account Has Been Deactivated" ->
                     "your dasher account has been deactivated"
              [] w = "Welcome back" -> "welcome back"
              [] w = "Payment processed" -> "payment processed"
              [] w = "Your background check is complete" ->
                     "your background check is complete"
              [] w = "Your background check is taking longer" ->
                     "your background check is taking longer"
              [] w = "Identity verified" -> "identity verified"
              [] w = "Quick note" -> "quick note"
              [] w = "Meeting tomorrow at 3pm" -> "meeting tomorrow at 3pm"
              [] w = "Contract violation notice" -> "contract violation notice"
              [] w = "Your weekly pay is ready" -> "your weekly pay is ready"
              [] w = "Your account was reactivated after deactivation review" ->
                     "your account was reactivated after deactivation review"
              [] w = "Your" -> "your"
              [] w = "$X" -> "$x"
              [] w = "DATE" -> "date"
              [] w = "YEAR" -> "year"
              [] w = "NUM" -> "num"
              [] OTHER -> w
        sub(w) ==
            CASE w = "$5.00" -> "$X"             \* _AMOUNT_RE
              [] w = "1/2" -> "DATE"             \* _DATE_SLASH_RE
              [] w = "2024" -> "YEAR"            \* _YEAR_RE
              [] w \in {"1099", "5555"} -> "NUM" \* _NUM_RE
              [] OTHER -> w
    IN  [i \in DOMAIN subject |-> sub(lower(subject[i]))]

sender_domain(k) ==
    CASE k \in {"deact", "react", "pay", "note", "viol", "tax", "num", "weekly",
                "both"} ->
             "doordash.com"
      [] k \in {"bgc_ok", "bgc_adv", "pending", "idv"} -> "checkr.com"
      [] k = "meet" -> "company.com"

make_fingerprint(k) ==
    LET subject == CASE k = "tax" -> <<"Your", "1099", "is ready">>
                     [] k = "num" -> <<"Your", "5555", "is ready">>
                     [] OTHER -> <<Subject(k)>>
    IN  <<sender_domain(k), normalize_subject(subject)>>

\* ALERT_CATEGORIES
AlertKeys ==
    {<<"account", "deactivation">>, <<"warning", "contract_violation">>,
     <<"warning", "low_rating_warning">>}

ALERT_CATEGORIES(key) ==
    CASE key = <<"account", "deactivation">> ->
             [alert_type |-> "deactivation", severity |-> "critical"]
      [] key = <<"warning", "contract_violation">> ->
             [alert_type |-> "contract_violation", severity |-> "critical"]
      [] key = <<"warning", "low_rating_warning">> ->
             [alert_type |-> "low_rating", severity |-> "warning"]

(***************************************************************************)
(* State.                                                                  *)
(***************************************************************************)
VARIABLES
    smtp_accounts,  \* provider: ids of the accounts it hosts
    mailbox,        \* provider: account id -> sequence of message kinds, oldest first
    accounts,       \* table accounts: account id -> [stage, scan_error]
    stage_history,  \* table stage_history, per account_id, in insertion order
    alerts,         \* table alerts: a bag of rows
    email_analyses, \* table email_analyses: <<account_id, message_id>> -> row
    scans,          \* scan_all_accounts tasks with their scan_logs row
    jobs,           \* scan_single_account coroutines: <<scan id, account id>> -> frame
    last_ok,        \* account id -> size of the message set of its last finished job
    llm_calls,      \* log of the analyze_email_with_ai calls of the scanner
                    \* and of single analyze_email requests: [key, failed]
    faults,         \* repository calls that have raised so far
    admin_queues,   \* SSEManager._admin_queues: queue id -> queued events
    portal_queues,  \* SSEManager._portal_queues: email -> (queue id -> queued events)
    reqs,           \* requests served by the analysis routes so far
    ai_call,        \* analyze_email_with_ai: the call in progress
    smtp,           \* SmtpDevClient: the call in progress and the _Cache entry
                    \* of the account list
    published,      \* the last event given to the SSEManager, a bit that
                    \* flips with every event, the queues it dropped
    old_rows,       \* keys of the email_analyses rows whose created_at
                    \* precedes _CLASSIFIER_RULES_VERSION
    batch,          \* analyze_account_emails: the call in progress
    fn_call,        \* the last call of normalize_subject or of the stage
                    \* detector: its argument and what it returned
    streams,        \* routes/sse.py: the queue ids whose client has gone
                    \* and whose generate() has not ended yet, and those
                    \* whose generate() has ended
    auto_sync       \* the auto_sync_accounts task: its position in the loop

\* the state of the services beside the scanner
svc == <<ai_call, smtp, published, old_rows, batch, fn_call, streams, auto_sync>>

vars == <<smtp_accounts, mailbox, accounts, stage_history, alerts, email_analyses,
          scans, jobs, last_ok, llm_calls, faults, admin_queues, portal_queues,
          reqs, svc>>

\* account ids the provider may host
AccountIds == {1, 2}

Email(a) == <<"inbox", a>>

\* mailbox ids (inbox_id, trash_id, junk_id) the provider lists for an account
MailboxIds(a) == IF a \in smtp_accounts THEN {"inbox"} ELSE {}

BATCH_SIZE == 10

\* first n headers of an account, as get_all_messages_headers returns them
Headers(a, n) ==
    [i \in 1..n |-> [id |-> i, kind |-> mailbox[a][i], date |-> i]]

RECURSIVE SumLen(_)
SumLen(as) ==
    IF as = {} THEN 0
    ELSE LET a == CHOOSE x \in as : TRUE
         IN  Len(mailbox[a]) + SumLen(as \ {a})

Delivered == SumLen(AccountIds)

EmptyFn == [x \in {} |-> x]

\* no finished job yet
Never == -1

IdleJob ==
    [pc |-> "fetch", n |-> 0, new_stage |-> "REGISTERED", trigger |-> NoTrigger,
     stage_changed |-> FALSE, already |-> {}, idx |-> 1]

\* the state after start-up: the provider hosts the accounts in hosted, and
\* the repository holds a row for each account id in rows
InitOf(hosted, rows) ==
    /\ smtp_accounts = hosted
    /\ mailbox = [a \in AccountIds \union rows |-> <<>>]
    /\ accounts = [a \in rows |-> [stage |-> "REGISTERED", scan_error |-> FALSE]]
    /\ stage_history = [a \in AccountIds \union rows |-> <<>>]
    /\ alerts = EmptyBag
    /\ email_analyses = EmptyFn
    /\ scans = <<>>
    /\ jobs = EmptyFn
    /\ last_ok = [a \in AccountIds \union rows |-> Never]
    /\ llm_calls = <<>>
    /\ faults = 0
    /\ admin_queues = EmptyFn
    /\ portal_queues = EmptyFn
    /\ reqs = 0
    /\ ai_call = [pc |-> "idle", enabled |-> TRUE, log |-> <<>>, slept |-> <<>>,
                  result |-> None]
    /\ smtp = [pc |-> "idle", op |-> "none", arg |-> 0, log |-> <<>>,
               slept |-> <<>>, outcome |-> "none", all_accounts |-> <<>>,
               served |-> "none", mutated |-> FALSE, response |-> <<>>]
    /\ published = [n |-> 0, event |-> None, dropped |-> {}]
    /\ old_rows = {}
    /\ batch = [pc |-> "idle", account |-> 0, msgs |-> <<>>, results |-> EmptyFn,
                pending |-> {}, done |-> <<>>, failed |-> {}, returned |-> <<>>,
                template_cache |-> EmptyFn]
    /\ fn_call = [subject |-> <<>>, normalized |-> <<>>, messages |-> <<>>,
                  body |-> <<>>, truncated |-> <<>>,
                  detected |-> DetectInit, inspected |-> None,
                  body_stage |-> "none", classified |-> None]
    /\ streams = [gone |-> {}, ended |-> {}]
    /\ auto_sync = [pc |-> "sleep", todo |-> {}, acc |-> 0, errors |-> 0,
                    iterations |-> 0, inserted |-> <<>>]

\* an empty repository
InitWith(hosted) == InitOf(hosted, {})

Init == InitWith({1})

(***************************************************************************)
(* Environment: the provider receives a message for an account.            *)
(***************************************************************************)
\* the messages the scanner specification delivers
ScanKinds == {"deact", "react", "bgc_adv", "note", "viol"}

Deliver(a, k, max_msgs) ==
    /\ Delivered < max_msgs
    /\ mailbox' = [mailbox EXCEPT ![a] = Append(@, k)]
    /\ UNCHANGED <<smtp_accounts, accounts, stage_history, alerts, email_analyses,
                   scans, jobs, last_ok, llm_calls, faults, admin_queues,
                   portal_queues, reqs, svc>>

(***************************************************************************)
(* sse_bridge.py                                                           *)
(***************************************************************************)
QueueIds == {1, 2}

subscribe_admin(q) ==
    /\ q \notin DOMAIN admin_queues
    /\ \A e \in DOMAIN portal_queues : q \notin DOMAIN portal_queues[e]
    /\ admin_queues' = (q :> <<>>) @@ admin_queues
    /\ UNCHANGED <<smtp_accounts, mailbox, accounts, stage_history, alerts,
                   email_analyses, scans, jobs, last_ok, llm_calls, faults,
                   portal_queues, reqs, svc>>

subscribe_portal(email, q) ==
    /\ q \notin DOMAIN admin_queues
    /\ \A e \in DOMAIN portal_queues : q \notin DOMAIN portal_queues[e]
    /\ portal_queues' =
           IF email \notin DOMAIN portal_queues
           THEN (email :> (q :> <<>>)) @@ portal_queues
           ELSE [portal_queues EXCEPT ![email] = (q :> <<>>) @@ @]
    /\ UNCHANGED <<smtp_accounts, mailbox, accounts, stage_history, alerts,
                   email_analyses, scans, jobs, last_ok, llm_calls, faults,
                   admin_queues, reqs, svc>>

\* asyncio.Queue(maxsize=50)
QUEUE_MAXSIZE == 50

\* a broadcast that a full queue cuts short: the full queues are dropped
\* and the others are left without the event
BroadcastCutShort(queues, event) ==
    IF \E x \in DOMAIN queues : Len(queues[x]) >= QUEUE_MAXSIZE
    THEN [q \in {x \in DOMAIN queues : Len(queues[x]) < QUEUE_MAXSIZE} |->
             queues[q]]
    ELSE [q \in DOMAIN queues |-> Append(queues[q], event)]

\* put_nowait on every queue; a full queue is dropped from the set
Broadcast(queues, event) ==
    [q \in {x \in DOMAIN queues : Len(queues[x]) < QUEUE_MAXSIZE} |->
        Append(queues[q], event)]

\* the admin queues after broadcast_admin(event_type, data)
broadcast_admin(event_type, data) ==
    Broadcast(admin_queues, [type |-> event_type, data |-> data])

\* the portal queues after broadcast_portal(email, event_type, data)
broadcast_portal(email, event_type, data) ==
    IF email \notin DOMAIN portal_queues THEN portal_queues
    ELSE [portal_queues EXCEPT
             ![email] = Broadcast(@, [type |-> event_type, data |-> data])]

\* the queues after notify_stage_change(account_email, old_stage, new_stage)
notify_stage_change(account_email, old_stage, new_stage) ==
    LET data == [email |-> account_email, old_stage |-> old_stage,
                 new_stage |-> new_stage]
    IN  [admin |-> broadcast_admin("stage_change", data),
         portal |-> broadcast_portal(account_email, "stage_change", data),
         event |-> [type |-> "stage_change", data |-> data]]

\* the queues after notify_new_email(account_email, message)
notify_new_email(account_email, message) ==
    LET data == [email |-> account_email, subject |-> Subject(message),
                 from |-> Sender(message)]
    IN  [admin |-> broadcast_admin("new_email", data),
         portal |-> broadcast_portal(account_email, "new_email", data),
         event |-> [type |-> "new_email", data |-> data]]

\* an alert broadcast that also reaches the portal queues
notify_alert_all(alert) ==
    [admin |-> broadcast_admin("alert", alert),
     portal |-> [e \in DOMAIN portal_queues |->
                    Broadcast(portal_queues[e],
                              [type |-> "alert", data |-> alert])],
     event |-> [type |-> "alert", data |-> alert]]

\* the queues after notify_alert(alert)
notify_alert(alert) ==
    [admin |-> broadcast_admin("alert", alert),
     portal |-> portal_queues,
     event |-> [type |-> "alert", data |-> alert]]

\* a caller awaits one of the notify methods; counted callers are bounded
Publish(after, counted) ==
    /\ counted => reqs < MaxReqs
    /\ reqs' = IF counted THEN reqs + 1 ELSE reqs
    /\ admin_queues' = after.admin
    /\ portal_queues' = after.portal
    /\ published' =
           [n |-> 1 - published.n, event |-> after.event,
            dropped |->
                (DOMAIN admin_queues \ DOMAIN after.admin) \union
                UNION {DOMAIN portal_queues[e] \ DOMAIN after.portal[e] :
                          e \in DOMAIN portal_queues}]
    /\ UNCHANGED <<smtp_accounts, mailbox, accounts, stage_history, alerts,
                   email_analyses, scans, jobs, last_ok, llm_calls, faults,
                   ai_call, smtp, old_rows, batch,
                   fn_call,
                   streams, auto_sync>>

\* SSE clients of both kinds and callers of every notify method
SseNext ==
    \/ \E q \in QueueIds : subscribe_admin(q)
    \/ \E a \in AccountIds, q \in QueueIds : subscribe_portal(Email(a), q)
    \/ \E a \in AccountIds : Publish(notify_new_email(Email(a), "note"), TRUE)
    \/ \E a \in AccountIds :
           Publish(notify_stage_change(Email(a), "REGISTERED", "ACTIVE"), TRUE)
    \/ Publish(notify_alert([account_id |-> 1, alert_type |-> "deactivation"]),
               TRUE)

SseSpec == Init /\ [][SseNext]_vars

\* SSE clients that never read, and a caller that goes on publishing one
\* event
FloodNext ==
    \/ \E q \in QueueIds : subscribe_admin(q)
    \/ \E q \in QueueIds : subscribe_portal(Email(1), q)
    \/ Publish(notify_stage_change(Email(1), "REGISTERED", "ACTIVE"), FALSE)

FloodSpec == Init /\ [][FloodNext]_vars

(***************************************************************************)
(* routes/sse.py admin_sse and portal_sse with sse_bridge.py               *)
(* event_generator.  A queue id stands for one connection and is used      *)
(* once.                                                                   *)
(***************************************************************************)
\* the admin set after unsubscribe_admin(queue)
unsubscribe_admin(q) ==
    [x \in DOMAIN admin_queues \ {q} |-> admin_queues[x]]

\* an unsubscribe_portal that removes nothing
unsubscribe_portal_Keep(email, q) == portal_queues

\* the portal sets after unsubscribe_portal(email, queue): the queue is
\* discarded, and the email's entry is deleted when its set is empty
unsubscribe_portal(email, q) ==
    IF email \notin DOMAIN portal_queues THEN portal_queues
    ELSE IF DOMAIN portal_queues[email] \ {q} = {}
         THEN [e \in DOMAIN portal_queues \ {email} |-> portal_queues[e]]
         ELSE [portal_queues EXCEPT
                  ![email] = [x \in DOMAIN @ \ {q} |-> @[x]]]

\* the client of a registered queue goes away: the transport cancels the
\* task that runs generate(), or request.is_disconnected() becomes true
Disconnect(q) ==
    /\ q \notin streams.gone \union streams.ended
    /\ \/ q \in DOMAIN admin_queues
       \/ \E e \in DOMAIN portal_queues : q \in DOMAIN portal_queues[e]
    /\ streams' = [streams EXCEPT !.gone = @ \union {q}]
    /\ UNCHANGED <<smtp_accounts, mailbox, accounts, stage_history, alerts,
                   email_analyses, scans, jobs, last_ok, llm_calls, faults,
                   admin_queues, portal_queues, reqs, ai_call, smtp, published,
                   old_rows, batch, fn_call, auto_sync>>

\* generate() of the connection of queue q, lines 16-23 and 42-49: one pass
\* of the loop over event_generator(queue).  With the client there, the
\* next event of the queue is taken and sent (the keepalive of an empty
\* queue changes nothing); with the client gone, the pass ends in break or
\* in the cancellation that event_generator swallows, and the finally
\* clause unsubscribes the queue.  A queue that a broadcast has dropped is
\* in no set, and unsubscribing it changes nothing
generate(q) ==
    /\ q \notin streams.ended
    /\ LET admin == q \in DOMAIN admin_queues
           emails == {e \in DOMAIN portal_queues : q \in DOMAIN portal_queues[e]}
       IN  IF q \in streams.gone
           THEN /\ admin_queues' = unsubscribe_admin(q)
                /\ portal_queues' =
                       IF emails = {} THEN portal_queues
                       ELSE unsubscribe_portal(CHOOSE e \in emails : TRUE, q)
                /\ streams' = [gone |-> streams.gone \ {q},
                               ended |-> streams.ended \union {q}]
           ELSE /\ \/ admin /\ admin_queues[q] # <<>>
                   \/ \E e \in emails : portal_queues[e][q] # <<>>
                /\ admin_queues' =
                       IF admin THEN [admin_queues EXCEPT ![q] = Tail(@)]
                       ELSE admin_queues
                /\ portal_queues' =
                       IF emails = {} THEN portal_queues
                       ELSE [portal_queues EXCEPT
                                ![CHOOSE e \in emails : TRUE][q] = Tail(@)]
                /\ UNCHANGED streams
    /\ UNCHANGED <<smtp_accounts, mailbox, accounts, stage_history, alerts,
                   email_analyses, scans, jobs, last_ok, llm_calls, faults,
                   reqs, ai_call, smtp, published, old_rows, batch, fn_call,
                   auto_sync>>

\* connections that come and go while events are published
StreamNext ==
    \/ \E q \in QueueIds \ (streams.gone \union streams.ended) :
           subscribe_admin(q)
    \/ \E a \in AccountIds, q \in QueueIds \ (streams.gone \union streams.ended) :
           subscribe_portal(Email(a), q)
    \/ \E a \in AccountIds :
           Publish(notify_stage_change(Email(a), "REGISTERED", "ACTIVE"), TRUE)
    \/ \E q \in QueueIds : Disconnect(q)
    \/ \E q \in QueueIds : generate(q)

\* every connection has its own task, which the cancellation or the 30 s
\* keepalive of event_generator brings to its next pass
StreamSpec ==
    Init /\ [][StreamNext]_vars /\ \A q \in QueueIds : WF_vars(generate(q))

(***************************************************************************)
(* routes/scanner.py start_scan and scanner.py scan_all_accounts           *)
(***************************************************************************)
\* POST /scan: insert the scan_logs row and create the background task.
\* replay_of notes, per inbox, the size of the message set its last job
\* finished with, when no other scan is running.
start_scan(max_scans) ==
    /\ Len(scans) < max_scans
    /\ scans' = Append(scans,
           [pc |-> "reconcile", status |-> "running", db_accounts |-> EmptyFn,
            template_cache |-> EmptyFn, i |-> 0,
            scanned |-> 0, transitions |-> 0, errors |-> 0,
            replay_of |-> IF \A t \in DOMAIN scans : scans[t].pc = "done"
                          THEN last_ok
                          ELSE [a \in DOMAIN last_ok |-> Never]])
    /\ UNCHANGED <<smtp_accounts, mailbox, accounts, stage_history, alerts,
                   email_analyses, jobs, last_ok, llm_calls, faults, admin_queues,
                   portal_queues, reqs, svc>>

\* lines 38-73: insert the provider accounts that have no row, then read all
\* rows of accounts
ScanReconcile(s) ==
    /\ scans[s].pc = "reconcile"
    /\ accounts' = [a \in smtp_accounts \union DOMAIN accounts |->
                       IF a \in DOMAIN accounts THEN accounts[a]
                       ELSE [stage |-> "REGISTERED", scan_error |-> FALSE]]
    /\ scans' = [scans EXCEPT ![s].pc = "dispatch", ![s].db_accounts = accounts']
    /\ UNCHANGED <<smtp_accounts, mailbox, stage_history, alerts, email_analyses,
                   jobs, last_ok, llm_calls, faults, admin_queues, portal_queues,
                   reqs, svc>>

\* a batch that holds the first row of the slice alone
BatchFirstOnly(s) ==
    {a \in DOMAIN scans[s].db_accounts :
        Cardinality({b \in DOMAIN scans[s].db_accounts : b < a}) = scans[s].i}

\* the rows of db_accounts[i : i + BATCH_SIZE]; rows are ordered by id
Batch(s) ==
    {a \in DOMAIN scans[s].db_accounts :
        LET pos == Cardinality({b \in DOMAIN scans[s].db_accounts : b < a})
        IN  pos >= scans[s].i /\ pos < scans[s].i + BATCH_SIZE}

\* lines 77-93: launch the per-inbox jobs of the next batch
ScanDispatch(s) ==
    /\ scans[s].pc = "dispatch"
    /\ jobs' = [key \in {<<s, a>> : a \in Batch(s)} |-> IdleJob] @@ jobs
    /\ scans' = [scans EXCEPT ![s].pc = "gather"]
    /\ UNCHANGED <<smtp_accounts, mailbox, accounts, stage_history, alerts,
                   email_analyses, last_ok, llm_calls, faults, admin_queues,
                   portal_queues, reqs, svc>>

(***************************************************************************)
(* scanner.py scan_single_account.  A step of a job runs from one          *)
(* suspension point to the next, together with the awaited calls.          *)
(***************************************************************************)
Job(s, a) == jobs[<<s, a>>]

SetJob(s, a, j) == [jobs EXCEPT ![<<s, a>>] = j]

\* lines 170-182: body inspection of the deferred BGC-complete messages
RECURSIVE BodyCheckLoop(_, _)
BodyCheckLoop(cur, msgs) ==
    IF msgs = <<>> THEN cur
    ELSE LET msg == Head(msgs)
             body_stage == check_bgc_body(msg.kind)
         IN  BodyCheckLoop(
                 IF STAGE_PRIORITY[body_stage] > STAGE_PRIORITY[cur.stage]
                 THEN [stage |-> body_stage, trigger |-> msg.id]
                 ELSE cur,
                 Tail(msgs))

DetectWithBodies(messages) ==
    LET d == detect_stage_from_messages(messages)
        cur == [stage |-> d.stage, trigger |-> d.trigger]
    IN  IF d.needs_body_check # <<>> /\ d.stage \in {"BGC_CLEAR", "BGC_CONSIDER"}
        THEN BodyCheckLoop(cur, d.needs_body_check)
        ELSE cur

\* lines 142-182: fetch the headers, detect the stage, inspect the bodies
JobFetch(s, a) ==
    /\ <<s, a>> \in DOMAIN jobs
    /\ Job(s, a).pc = "fetch"
    /\ IF MailboxIds(a) = {}
       THEN /\ accounts' = [accounts EXCEPT ![a].scan_error = FALSE]
            /\ jobs' = SetJob(s, a, [Job(s, a) EXCEPT !.pc = "returned"])
       ELSE LET n == Len(mailbox[a])
                r == DetectWithBodies(Headers(a, n))
            IN  /\ jobs' = SetJob(s, a,
                       [Job(s, a) EXCEPT
                           !.pc = "promote", !.n = n, !.new_stage = r.stage,
                           !.trigger = r.trigger])
                /\ UNCHANGED accounts
    /\ UNCHANGED <<smtp_accounts, mailbox, stage_history, alerts, email_analyses,
                   scans, last_ok, llm_calls, faults, admin_queues, portal_queues,
                   reqs, svc>>

\* line 185
StageChanged(new_stage, old_stage) ==
    new_stage # old_stage /\ STAGE_PRIORITY[new_stage] > STAGE_PRIORITY[old_stage]

\* a severity map that reports an adverse background check as info
StageAlertSeverityFlat(new_stage) ==
    IF new_stage = "DEACTIVATED" THEN "critical" ELSE "info"

\* _create_stage_alert: the row inserted into alerts
StageAlertSeverity(new_stage) ==
    IF new_stage = "DEACTIVATED" THEN "critical"
    ELSE IF new_stage = "BGC_CONSIDER" THEN "warning"
    ELSE IF new_stage = "ACTIVE" THEN "info"
    ELSE "info"

StageAlertType(new_stage) ==
    IF new_stage = "DEACTIVATED" THEN "deactivation" ELSE "stage_change"

_create_stage_alert(a, old_stage, new_stage, trigger_subject) ==
    [account_id |-> a, alert_type |-> StageAlertType(new_stage),
     severity |-> StageAlertSeverity(new_stage),
     title |-> <<Email(a), old_stage, new_stage>>, message |-> trigger_subject]

TriggerSubject(a, trigger) ==
    IF trigger = NoTrigger THEN "" ELSE Subject(mailbox[a][trigger])

\* lines 184-214: compare with the stage read by the orchestrator, then
\* update accounts, insert into stage_history, insert the alert; each of
\* the three calls may raise, which ends the job with what was written
PromoteOutcomes == {"ok", "update_raises", "history_raises", "alert_raises"}

JobPromote(s, a, outcome) ==
    /\ <<s, a>> \in DOMAIN jobs
    /\ Job(s, a).pc = "promote"
    /\ outcome # "ok" => faults < MaxFaults
    /\ LET j == Job(s, a)
           old_stage == scans[s].db_accounts[a].stage
           new_stage == j.new_stage
           stage_changed == StageChanged(new_stage, old_stage)
           subject == TriggerSubject(a, j.trigger)
           updated == outcome # "update_raises"
           inserted == stage_changed /\ outcome \in {"ok", "alert_raises"}
           alerted == stage_changed /\ outcome = "ok"
       IN  /\ ~stage_changed => outcome \in {"ok", "update_raises"}
           /\ accounts' =
                  IF ~updated THEN accounts
                  ELSE IF stage_changed
                       THEN [accounts EXCEPT ![a].stage = new_stage,
                                             ![a].scan_error = FALSE]
                       ELSE [accounts EXCEPT ![a].scan_error = FALSE]
           /\ stage_history' =
                  IF inserted
                  THEN [stage_history EXCEPT ![a] =
                           Append(@, [old_stage |-> old_stage,
                                      new_stage |-> new_stage,
                                      trigger_email_subject |-> subject])]
                  ELSE stage_history
           /\ alerts' =
                  IF alerted
                  THEN alerts (+) SetToBag({_create_stage_alert(
                                                a, old_stage, new_stage, subject)})
                  ELSE alerts
           /\ jobs' = SetJob(s, a,
                  [j EXCEPT
                      !.pc = IF outcome = "ok" THEN "select" ELSE "raised",
                      !.stage_changed = stage_changed])
    /\ faults' = IF outcome = "ok" THEN faults ELSE faults + 1
    /\ UNCHANGED <<smtp_accounts, mailbox, email_analyses, scans, last_ok,
                   llm_calls, admin_queues, portal_queues, reqs, svc>>

(***************************************************************************)
(* scanner.py _classify_recent_emails                                      *)
(***************************************************************************)
\* line 217: messages[:20]
RECENT == 20

Recent(n) == IF n < RECENT THEN n ELSE RECENT

\* lines 246-261: collect the message ids, read the rows that exist for them
JobSelect(s, a, raises) ==
    /\ <<s, a>> \in DOMAIN jobs
    /\ Job(s, a).pc = "select"
    /\ raises => faults < MaxFaults /\ Recent(Job(s, a).n) > 0
    /\ LET j == Job(s, a)
           all_ids == 1..Recent(j.n)
       IN  jobs' = SetJob(s, a,
               IF all_ids = {} THEN [j EXCEPT !.pc = "returned"]
               ELSE IF raises THEN [j EXCEPT !.pc = "raised"]
               ELSE [j EXCEPT
                        !.pc = "classify",
                        !.already = {i \in all_ids : <<a, i>> \in DOMAIN email_analyses},
                        !.idx = 1])
    /\ faults' = IF raises THEN faults + 1 ELSE faults
    /\ UNCHANGED <<smtp_accounts, mailbox, accounts, stage_history, alerts,
                   email_analyses, scans, last_ok, llm_calls, admin_queues,
                   portal_queues, reqs, svc>>

\* lines 276-277
DedupSource(source) ==
    CASE source = "rules" -> "rules_dedup"
      [] source = "ai" -> "ai_dedup"
      [] OTHER -> source

\* lines 292-306: the rule classifier's row; the scanner passes no body and
\* does not look at needs_ai
ScanRulesRow(k) ==
    LET result == classify_with_threshold(k, FALSE).result
    IN  IF result = None THEN None
        ELSE [category |-> result.category, sub_category |-> result.sub_category,
              confidence |-> result.confidence, analysis_source |-> "rules",
              urgency |-> result.urgency,
              action_required |-> result.action_required]

\* the row of message i when the template cache is not consulted
ScanAnalysisNoCache(s, a, i) == ScanRulesRow(mailbox[a][i])

\* the row the loop body builds for message i, or None when the message is
\* skipped (line 294)
ScanAnalysis(s, a, i) ==
    LET fingerprint == make_fingerprint(mailbox[a][i])
        cache == scans[s].template_cache
    IN  IF fingerprint \in DOMAIN cache
        THEN [cache[fingerprint] EXCEPT !.analysis_source = DedupSource(@)]
        ELSE ScanRulesRow(mailbox[a][i])

\* a loop that does not skip the messages that are already classified
RECURSIVE NextInsert_Unfiltered(_, _, _, _)
NextInsert_Unfiltered(s, a, i, m) ==
    IF i > m THEN i
    ELSE IF ScanAnalysis(s, a, i) = None
         THEN NextInsert_Unfiltered(s, a, i + 1, m)
         ELSE i

\* the loop runs without suspension over messages that are already
\* classified or unclassifiable, up to the next message it inserts
RECURSIVE NextInsert(_, _, _, _)
NextInsert(s, a, i, m) ==
    IF i > m THEN i
    ELSE IF i \in Job(s, a).already \/ ScanAnalysis(s, a, i) = None
         THEN NextInsert(s, a, i + 1, m)
         ELSE i

\* a classification that inserts the alert of a promotion to DEACTIVATED
ClassAlert_AsStageAlert(a, row, subject) ==
    _create_stage_alert(a, "REGISTERED", "DEACTIVATED", subject)

\* _maybe_create_alert and _maybe_create_alert_from_data
ClassAlert(a, row, subject) ==
    [account_id |-> a,
     alert_type |-> ALERT_CATEGORIES(<<row.category, row.sub_category>>).alert_type,
     severity |-> ALERT_CATEGORIES(<<row.category, row.sub_category>>).severity,
     title |-> <<Email(a), row.category, row.sub_category>>,
     message |-> subject]

\* lines 264-325: one message: template cache, rules, upsert, alert.  A
\* failing upsert is swallowed (lines 286, 322); a failing alert insert
\* raises out of the job
ClassifyOutcomes == {"ok", "insert_raises", "alert_raises"}

JobClassify(s, a, outcome) ==
    /\ <<s, a>> \in DOMAIN jobs
    /\ Job(s, a).pc = "classify"
    /\ LET j == Job(s, a)
           m == Recent(j.n)
           i == NextInsert(s, a, j.idx, m)
       IN  IF i > m
           THEN /\ outcome = "ok"
                /\ jobs' = SetJob(s, a, [j EXCEPT !.pc = "returned", !.idx = i])
                /\ UNCHANGED <<email_analyses, alerts, scans, faults>>
           ELSE LET row == ScanAnalysis(s, a, i)
                    fingerprint == make_fingerprint(mailbox[a][i])
                    alerting == <<row.category, row.sub_category>> \in AlertKeys
                IN  /\ outcome # "ok" => faults < MaxFaults
                    /\ outcome = "alert_raises" => alerting
                    /\ scans' =
                           IF fingerprint \in DOMAIN scans[s].template_cache
                           THEN scans
                           ELSE [scans EXCEPT ![s].template_cache =
                                    (fingerprint :> row) @@ @]
                    /\ email_analyses' =
                           IF outcome = "insert_raises" THEN email_analyses
                           ELSE (<<a, i>> :> row) @@ email_analyses
                    /\ alerts' =
                           IF alerting /\ outcome # "alert_raises"
                           THEN alerts (+) SetToBag({ClassAlert(
                                    a, row, Subject(mailbox[a][i]))})
                           ELSE alerts
                    /\ jobs' = SetJob(s, a,
                           [j EXCEPT
                               !.pc = IF outcome = "alert_raises" THEN "raised"
                                      ELSE "classify",
                               !.idx = i + 1])
                    /\ faults' = IF outcome = "ok" THEN faults ELSE faults + 1
    /\ UNCHANGED <<smtp_accounts, mailbox, accounts, stage_history, last_ok,
                   llm_calls, admin_queues, portal_queues, reqs, svc>>

(***************************************************************************)
(* scan_all_accounts, lines 94-124: collect the results of the batch; go   *)
(* on with the next batch or complete the scan_logs row                    *)
(***************************************************************************)
ScanCollect(s) ==
    /\ scans[s].pc = "gather"
    /\ \A a \in Batch(s) : Job(s, a).pc \in {"returned", "raised"}
    /\ LET raised == {a \in Batch(s) : Job(s, a).pc = "raised"}
           changed == {a \in Batch(s) \ raised : Job(s, a).stage_changed}
           last == \A a \in DOMAIN scans[s].db_accounts :
                      Cardinality({b \in DOMAIN scans[s].db_accounts : b < a})
                          < scans[s].i + BATCH_SIZE
       IN  /\ accounts' = [a \in DOMAIN accounts |->
                              IF a \in raised
                              THEN [accounts[a] EXCEPT !.scan_error = TRUE]
                              ELSE accounts[a]]
           /\ last_ok' = [a \in DOMAIN last_ok |->
                             IF a \in raised THEN Never
                             ELSE IF a \in Batch(s) THEN Job(s, a).n
                             ELSE last_ok[a]]
           /\ jobs' = [key \in DOMAIN jobs \ {<<s, a>> : a \in Batch(s)} |->
                          jobs[key]]
           /\ scans' = [scans EXCEPT
                  ![s].errors = @ + Cardinality(raised),
                  ![s].scanned = @ + Cardinality(Batch(s) \ raised),
                  ![s].transitions = @ + Cardinality(changed),
                  ![s].i = IF last THEN 0 ELSE @ + BATCH_SIZE,
                  ![s].pc = IF last THEN "done" ELSE "dispatch",
                  ![s].status = IF last THEN "completed" ELSE "running",
                  ![s].db_accounts = IF last THEN EmptyFn ELSE @,
                  ![s].replay_of = IF last THEN [a \in DOMAIN last_ok |-> Never] ELSE @,
                  ![s].template_cache = IF last THEN EmptyFn ELSE @]
    /\ UNCHANGED <<smtp_accounts, mailbox, stage_history, alerts, email_analyses,
                   llm_calls, faults, admin_queues, portal_queues, reqs, svc>>

\* the scanner with its environment: at most max_msgs deliveries and
\* max_scans scans
ScanNext(max_msgs, max_scans) ==
    \/ \E a \in smtp_accounts, k \in ScanKinds : Deliver(a, k, max_msgs)
    \/ start_scan(max_scans)
    \/ \E s \in DOMAIN scans : ScanReconcile(s)
    \/ \E s \in DOMAIN scans : ScanDispatch(s)
    \/ \E s \in DOMAIN scans : ScanCollect(s)
    \/ \E s \in DOMAIN scans, a \in AccountIds : JobFetch(s, a)
    \/ \E s \in DOMAIN scans, a \in AccountIds, o \in PromoteOutcomes :
           JobPromote(s, a, o)
    \/ \E s \in DOMAIN scans, a \in AccountIds, r \in BOOLEAN : JobSelect(s, a, r)
    \/ \E s \in DOMAIN scans, a \in AccountIds, o \in ClassifyOutcomes :
           JobClassify(s, a, o)

\* scans that may overlap
Next == ScanNext(MaxMsgs, MaxScans)

Spec == Init /\ [][Next]_vars

\* one scan
SoloNext == ScanNext(SoloMsgs, SoloScans)

SoloSpec == Init /\ [][SoloNext]_vars

\* a repository that already holds FleetSize rows of accounts, the first of
\* them hosted by the provider, which may receive a message before the first
\* scan; scans may overlap
FleetInit == InitOf({1}, 1..FleetSize)

FleetNext ==
    \/ \E a \in smtp_accounts, k \in {"note"} :
           scans = <<>> /\ Deliver(a, k, SoloMsgs)
    \/ start_scan(MaxScans)
    \/ \E s \in DOMAIN scans : ScanReconcile(s)
    \/ \E s \in DOMAIN scans : ScanDispatch(s)
    \/ \E s \in DOMAIN scans : ScanCollect(s)
    \/ \E s \in DOMAIN scans, a \in DOMAIN accounts : JobFetch(s, a)
    \/ \E s \in DOMAIN scans, a \in DOMAIN accounts, o \in PromoteOutcomes :
           JobPromote(s, a, o)
    \/ \E s \in DOMAIN scans, a \in DOMAIN accounts, r \in BOOLEAN :
           JobSelect(s, a, r)
    \/ \E s \in DOMAIN scans, a \in DOMAIN accounts, o \in ClassifyOutcomes :
           JobClassify(s, a, o)

FleetSpec == FleetInit /\ [][FleetNext]_vars

\* scan_all_accounts, lines 36-40 and 80-89 with lines 125-137: a call inside
\* the try block raises, here get_all_accounts of the provider (before the
\* reconciliation) or the progress update of scan_logs (before a batch); the
\* handler writes status failed with one more error, and the task ends.  The
\* handler's own update of scan_logs may raise as well: then the task ends
\* with the exception and the row is left as it was.
ScanRaise(s, handler_raises) ==
    LET cost == (IF scans[s].pc = "dispatch" THEN 1 ELSE 0)
                    + (IF handler_raises THEN 1 ELSE 0)
    IN  /\ scans[s].pc \in {"reconcile", "dispatch"}
        /\ faults + cost <= MaxFaults
        /\ faults' = faults + cost
        /\ scans' = [scans EXCEPT
               ![s].pc = "done",
               ![s].status = IF handler_raises THEN @ ELSE "failed",
               ![s].errors = IF handler_raises THEN @ ELSE @ + 1,
               ![s].i = 0,
               ![s].db_accounts = EmptyFn,
               ![s].replay_of = [a \in DOMAIN last_ok |-> Never],
               ![s].template_cache = EmptyFn]
        /\ UNCHANGED <<smtp_accounts, mailbox, accounts, stage_history, alerts,
                       email_analyses, jobs, last_ok, llm_calls, admin_queues,
                       portal_queues, reqs, svc>>

\* one scan whose orchestrator may fail
OrchNext ==
    \/ SoloNext
    \/ \E s \in DOMAIN scans, h \in BOOLEAN : ScanRaise(s, h)

OrchSpec == Init /\ [][OrchNext]_vars

\* one scan, with SSE clients connecting
BusNext ==
    \/ SoloNext
    \/ \E q \in QueueIds : subscribe_admin(q)
    \/ \E a \in smtp_accounts, q \in QueueIds : subscribe_portal(Email(a), q)

BusSpec == Init /\ [][BusNext]_vars

\* exactly one scan, of two inboxes that receive messages of one template:
\* "Your 1099 is ready" and "Your 5555 is ready" have the same fingerprint
\* and different rule results.  All rows of email_analyses are this scan's.
CacheKinds == {"tax", "num"}

CacheInit == InitWith({1, 2})

CacheNext ==
    \/ \E a \in smtp_accounts, k \in CacheKinds : Deliver(a, k, CacheMsgs)
    \/ start_scan(1)
    \/ \E s \in DOMAIN scans : ScanReconcile(s)
    \/ \E s \in DOMAIN scans : ScanDispatch(s)
    \/ \E s \in DOMAIN scans : ScanCollect(s)
    \/ \E s \in DOMAIN scans, a \in AccountIds : JobFetch(s, a)
    \/ \E s \in DOMAIN scans, a \in AccountIds, o \in PromoteOutcomes :
           JobPromote(s, a, o)
    \/ \E s \in DOMAIN scans, a \in AccountIds, r \in BOOLEAN : JobSelect(s, a, r)
    \/ \E s \in DOMAIN scans, a \in AccountIds, o \in ClassifyOutcomes :
           JobClassify(s, a, o)

CacheSpec == CacheInit /\ [][CacheNext]_vars

(***************************************************************************)
(* scanner.py auto_sync_accounts, started and cancelled by main.py         *)
(* lifespan.  auto_sync.todo holds the provider accounts the iteration has *)
(* still to look at, auto_sync.acc the account whose row was looked up and *)
(* not found, auto_sync.errors the errors logged, auto_sync.inserted the   *)
(* inserts of the loop that the table accepted, each with whether a row    *)
(* of the account existed then.                                            *)
(***************************************************************************)
MaxIterations == 2

\* a table that accepts a second row for a provider account
UniqueViolation_None(acc) == FALSE

\* the accounts table has one row per provider account id: the insert of a
\* second row for an id is rejected and db.insert raises
UniqueViolation(acc) == acc \in DOMAIN accounts

\* an exception that ends the task
AutoSyncExcept_Reraise(sync) ==
    [sync EXCEPT !.pc = "ended", !.todo = {}, !.acc = 0, !.errors = @ + 1]

\* lines 413-414 and 382-384: the exception is logged and the loop goes on
\* to the sleep of the next iteration
AutoSyncExcept(sync) ==
    [sync EXCEPT !.pc = "sleep", !.todo = {}, !.acc = 0, !.errors = @ + 1,
                 !.iterations = @ + 1]

\* lines 382-412: the task runs from one suspension point to the next.
\* From the sleep: get_all_accounts.  From the list: the select of the next
\* provider account.  After a select that found no row: the insert and the
\* bootstrap of the new inbox (_ensure_portal_user and the name extraction
\* keep their own failures, and write no stage).  raises is whether the
\* awaited call raises
auto_sync_accounts(raises) ==
    /\ auto_sync.pc \in {"sleep", "select", "insert"}
    /\ auto_sync.pc = "sleep" => auto_sync.iterations < MaxIterations
    /\ raises => faults < MaxFaults
    /\ faults' = IF raises THEN faults + 1 ELSE faults
    /\ LET Rest(todo) ==
               IF todo = {}
               THEN [auto_sync EXCEPT !.pc = "sleep", !.todo = {}, !.acc = 0,
                                      !.iterations = @ + 1]
               ELSE [auto_sync EXCEPT !.pc = "select", !.todo = todo, !.acc = 0]
           acc == CHOOSE a \in auto_sync.todo : \A b \in auto_sync.todo : a <= b
       IN  IF raises
           THEN /\ auto_sync' = AutoSyncExcept(auto_sync)
                /\ UNCHANGED accounts
           ELSE IF auto_sync.pc = "sleep"
           THEN /\ auto_sync' = Rest(smtp_accounts)
                /\ UNCHANGED accounts
           ELSE IF auto_sync.pc = "select"
           THEN /\ auto_sync' =
                       IF acc \in DOMAIN accounts
                       THEN Rest(auto_sync.todo \ {acc})
                       ELSE [auto_sync EXCEPT !.pc = "insert", !.acc = acc]
                /\ UNCHANGED accounts
           ELSE IF UniqueViolation(auto_sync.acc)
           THEN /\ auto_sync' = AutoSyncExcept(auto_sync)
                /\ UNCHANGED accounts
           ELSE /\ accounts' =
                       [a \in DOMAIN accounts \union {auto_sync.acc} |->
                           IF a \in DOMAIN accounts THEN accounts[a]
                           ELSE [stage |-> "REGISTERED", scan_error |-> FALSE]]
                /\ auto_sync' =
                       [Rest(auto_sync.todo \ {auto_sync.acc}) EXCEPT
                           !.inserted =
                               Append(@, [acc |-> auto_sync.acc,
                                          existed |->
                                              auto_sync.acc \in DOMAIN accounts])]
    /\ UNCHANGED <<smtp_accounts, mailbox, stage_history, alerts, email_analyses,
                   scans, jobs, last_ok, llm_calls, admin_queues, portal_queues,
                   reqs, ai_call, smtp, published, old_rows, batch, fn_call,
                   streams>>

\* main.py line 29: sync_task.cancel() at shutdown; the CancelledError is
\* no Exception and ends the task
lifespan(shutdown) ==
    /\ shutdown
    /\ auto_sync.pc \in {"sleep", "select", "insert"}
    /\ auto_sync' = [auto_sync EXCEPT !.pc = "cancelled", !.todo = {}, !.acc = 0]
    /\ UNCHANGED <<smtp_accounts, mailbox, accounts, stage_history, alerts,
                   email_analyses, scans, jobs, last_ok, llm_calls, faults,
                   admin_queues, portal_queues, reqs, ai_call, smtp, published,
                   old_rows, batch, fn_call, streams>>

\* one scan and the auto-sync task over two provider accounts
SyncNext ==
    \/ SoloNext
    \/ \E raises \in BOOLEAN : auto_sync_accounts(raises)
    \/ lifespan(TRUE)

SyncSpec == CacheInit /\ [][SyncNext]_vars

(***************************************************************************)
(* smtp_client.py.  smtp.log holds the status of every HTTP response of    *)
(* the _request call in progress, smtp.slept the seconds of its sleeps,    *)
(* smtp.all_accounts the "all_accounts" entry of the cache (<<>> when      *)
(* there is none, else the one cached list),                               *)
(* smtp.mutated whether a mutating call completed since the account list   *)
(* was last fetched from the provider, and smtp.response the account list  *)
(* the provider has answered the GET in flight with, when a create_account *)
(* overtook that response (<<>> otherwise).                                *)
(***************************************************************************)
SMTP_MAX_RETRIES == 3

\* seconds
RETRY_BACKOFF_Short == <<1, 2, 4>>

RETRY_BACKOFF == <<2, 5, 15>>

\* the statuses the provider answers with
Statuses == {200, 429, 500}

\* lines 79-83: a hit of the cache returns the list; expired is whether the
\* entry is older than CACHE_TTL, which deletes it (lines 20-26)
get_all_accounts(expired) ==
    /\ smtp.pc = "idle"
    /\ reqs < MaxReqs
    /\ reqs' = reqs + 1
    /\ expired => smtp.all_accounts # <<>>
    /\ smtp' =
           IF smtp.all_accounts # <<>> /\ ~expired
           THEN [smtp EXCEPT !.op = "get_all_accounts", !.log = <<>>,
                             !.slept = <<>>, !.outcome = "json",
                             !.served = "cache"]
           ELSE [smtp EXCEPT !.pc = "request", !.op = "get_all_accounts",
                             !.log = <<>>, !.slept = <<>>, !.outcome = "none",
                             !.served = "none", !.all_accounts = <<>>]
    /\ UNCHANGED <<smtp_accounts, mailbox, accounts, stage_history, alerts,
                   email_analyses, scans, jobs, last_ok, llm_calls, faults,
                   admin_queues, portal_queues, ai_call, published,
                   old_rows, batch,
                   fn_call,
                   streams, auto_sync>>

\* lines 114-119: POST /accounts for the address of account a
create_account(a) ==
    /\ smtp.pc = "idle"
    /\ reqs < MaxReqs
    /\ reqs' = reqs + 1
    /\ a \notin smtp_accounts
    /\ smtp' = [smtp EXCEPT !.pc = "request", !.op = "create_account",
                            !.arg = a, !.log = <<>>, !.slept = <<>>,
                            !.outcome = "none", !.served = "none"]
    /\ UNCHANGED <<smtp_accounts, mailbox, accounts, stage_history, alerts,
                   email_analyses, scans, jobs, last_ok, llm_calls, faults,
                   admin_queues, portal_queues, ai_call, published,
                   old_rows, batch,
                   fn_call,
                   streams, auto_sync>>

\* lines 66-76: one pass of the loop of _request up to its sleep or its
\* return, and the rest of the calling method after a return: lines 85-112
\* of get_all_accounts (one page), lines 120-124 of create_account
_request(status) ==
    /\ smtp.pc = "request"
    /\ Len(smtp.log) < SMTP_MAX_RETRIES
    /\ smtp.response # <<>> => status = 200
    /\ LET log == Append(smtp.log, status)
       IN  IF status = 429
           THEN /\ smtp' = [smtp EXCEPT !.pc = "sleep", !.log = log]
                /\ UNCHANGED smtp_accounts
           ELSE IF status # 200
           THEN /\ smtp' = [smtp EXCEPT !.pc = "idle", !.log = log,
                                        !.outcome = "http_error"]
                /\ UNCHANGED smtp_accounts
           ELSE IF smtp.op = "get_all_accounts"
           THEN /\ smtp' = [smtp EXCEPT !.pc = "idle", !.log = log,
                                        !.outcome = "json",
                                        !.all_accounts =
                                            IF smtp.response # <<>>
                                            THEN smtp.response
                                            ELSE <<smtp_accounts>>,
                                        !.served = "provider",
                                        !.mutated =
                                            IF smtp.response # <<>> THEN @
                                            ELSE FALSE,
                                        !.response = <<>>]
                /\ UNCHANGED smtp_accounts
           ELSE /\ smtp_accounts' = smtp_accounts \union {smtp.arg}
                /\ smtp' = [smtp EXCEPT !.pc = "idle", !.log = log,
                                        !.outcome = "json",
                                        !.all_accounts = <<>>,
                                        !.mutated = TRUE]
    /\ UNCHANGED <<mailbox, accounts, stage_history, alerts, email_analyses,
                   scans, jobs, last_ok, llm_calls, faults, admin_queues,
                   portal_queues, reqs, ai_call, published,
                   old_rows, batch,
                   fn_call,
                   streams, auto_sync>>

\* lines 69-71 and 77: the sleep after a 429; the loop ends after the sleep
\* of the last pass and the rate-limit exception is raised
RequestSleep ==
    /\ smtp.pc = "sleep"
    /\ LET attempt == Len(smtp.log) - 1
           wait == RETRY_BACKOFF[Min(attempt, Len(RETRY_BACKOFF) - 1) + 1]
       IN  smtp' = [smtp EXCEPT
                       !.slept = Append(@, wait),
                       !.pc = IF attempt + 1 < SMTP_MAX_RETRIES THEN "request"
                              ELSE "idle",
                       !.outcome = IF attempt + 1 < SMTP_MAX_RETRIES THEN "none"
                                   ELSE "rate_limited"]
    /\ UNCHANGED <<smtp_accounts, mailbox, accounts, stage_history, alerts,
                   email_analyses, scans, jobs, last_ok, llm_calls, faults,
                   admin_queues, portal_queues, reqs, ai_call, published,
                   old_rows, batch,
                   fn_call,
                   streams, auto_sync>>

\* lines 126-134: PATCH /accounts/{id} with the new password; ok is whether
\* the status is below 300
update_password(a, ok) ==
    /\ smtp.pc = "idle"
    /\ reqs < MaxReqs
    /\ reqs' = reqs + 1
    /\ a \in smtp_accounts
    /\ smtp' = [smtp EXCEPT !.op = "update_password", !.arg = a, !.log = <<>>,
                            !.slept = <<>>,
                            !.outcome = IF ok THEN "json" ELSE "http_error",
                            !.served = "none",
                            !.mutated = IF ok THEN TRUE ELSE @]
    /\ UNCHANGED <<smtp_accounts, mailbox, accounts, stage_history, alerts,
                   email_analyses, scans, jobs, last_ok, llm_calls, faults,
                   admin_queues, portal_queues, ai_call, published,
                   old_rows, batch,
                   fn_call,
                   streams, auto_sync>>

\* lines 114-124 run by another task while a get_all_accounts waits for
\* its response at line 87: the POST is answered 200 and the cache entry is
\* invalidated before the waiting task runs again.  answered is whether the
\* provider had answered the GET before it handled the POST
create_account_during_fetch(a, answered) ==
    /\ smtp.op = "get_all_accounts"
    /\ smtp.pc \in {"request", "sleep"}
    /\ answered => smtp.pc = "request"
    /\ reqs < MaxReqs
    /\ reqs' = reqs + 1
    /\ a \notin smtp_accounts
    /\ smtp_accounts' = smtp_accounts \union {a}
    /\ smtp' = [smtp EXCEPT
                   !.all_accounts = <<>>,
                   !.mutated = TRUE,
                   !.response = IF answered /\ @ = <<>> THEN <<smtp_accounts>>
                                ELSE @]
    /\ UNCHANGED <<mailbox, accounts, stage_history, alerts, email_analyses,
                   scans, jobs, last_ok, llm_calls, faults, admin_queues,
                   portal_queues, ai_call, published, old_rows, batch, fn_call,
                   streams, auto_sync>>

MailNext ==
    \/ \E expired \in BOOLEAN : get_all_accounts(expired)
    \/ \E a \in AccountIds : create_account(a)
    \/ \E a \in AccountIds, answered \in BOOLEAN :
           create_account_during_fetch(a, answered)
    \/ \E status \in Statuses : _request(status)
    \/ RequestSleep
    \/ \E a \in AccountIds, ok \in BOOLEAN : update_password(a, ok)

MailSpec == Init /\ [][MailNext]_vars

(***************************************************************************)
(* ai_analyzer.py and analysis_pipeline.py                                 *)
(***************************************************************************)
\* the confidence field of the model's JSON answer: a number, or something
\* float() rejects
RawConfidences ==
    {[numeric |-> TRUE, value |-> -2500], [numeric |-> TRUE, value |-> 6000],
     [numeric |-> TRUE, value |-> 9500], [numeric |-> TRUE, value |-> 12500],
     [numeric |-> FALSE, value |-> 0]}

\* _validate_response: clamp the confidence to [0.0, 1.0]; 0.0 when it is
\* not a number
_validate_response(raw) ==
    IF raw.numeric THEN Max(0, Min(10000, raw.value)) ELSE 0

\* what analyze_email_with_ai returns: None after the last attempt failed
\* (or without an API key), else the validated answer
AiResults ==
    {None} \union
    {[category |-> "operational", sub_category |-> "other",
      confidence |-> _validate_response(raw), urgency |-> "low",
      action_required |-> FALSE] : raw \in RawConfidences}

MAX_RETRIES == 3

\* seconds
RETRY_BACKOFFS_Doubled == <<2, 4, 8>>

RETRY_BACKOFFS == <<1, 2, 4>>

\* lines 115-136: a call of analyze_email_with_ai; without an API key it
\* returns None at once.  log is the outcome of each attempt of the call,
\* slept the seconds of each sleep
analyze_email_with_ai(enabled) ==
    /\ ai_call.pc \in {"idle", "done"}
    /\ reqs < MaxReqs
    /\ reqs' = reqs + 1
    /\ ai_call' = [pc |-> IF enabled THEN "try" ELSE "done", enabled |-> enabled,
                   log |-> <<>>, slept |-> <<>>, result |-> None]
    /\ UNCHANGED <<smtp_accounts, mailbox, accounts, stage_history, alerts,
                   email_analyses, scans, jobs, last_ok, llm_calls, faults,
                   admin_queues, portal_queues, smtp, published,
                   old_rows, batch,
                   fn_call,
                   streams, auto_sync>>

\* lines 138-180: one pass of the loop up to its sleep: the request answers
\* with a JSON object (raw is its confidence field), or it times out,
\* answers with text that holds no JSON object, or raises
AiAttempt(outcome, raw) ==
    /\ ai_call.pc = "try"
    /\ Len(ai_call.log) < MAX_RETRIES
    /\ LET attempt == Len(ai_call.log)
       IN  ai_call' =
               IF outcome = "ok"
               THEN [ai_call EXCEPT
                        !.pc = "done", !.log = Append(@, outcome),
                        !.result = [category |-> "operational",
                                    sub_category |-> "other",
                                    confidence |-> _validate_response(raw),
                                    urgency |-> "low",
                                    action_required |-> FALSE]]
               ELSE [ai_call EXCEPT
                        !.pc = IF attempt < MAX_RETRIES - 1 THEN "sleep"
                               ELSE "done",
                        !.log = Append(@, outcome)]
    /\ UNCHANGED <<smtp_accounts, mailbox, accounts, stage_history, alerts,
                   email_analyses, scans, jobs, last_ok, llm_calls, faults,
                   admin_queues, portal_queues, reqs, smtp, published,
                   old_rows, batch,
                   fn_call,
                   streams, auto_sync>>

\* lines 182-185: asyncio.sleep(RETRY_BACKOFFS[attempt]), then the next pass
AiBackoff ==
    /\ ai_call.pc = "sleep"
    /\ ai_call' = [ai_call EXCEPT
                      !.pc = "try",
                      !.slept = Append(@, RETRY_BACKOFFS[Len(ai_call.log)])]
    /\ UNCHANGED <<smtp_accounts, mailbox, accounts, stage_history, alerts,
                   email_analyses, scans, jobs, last_ok, llm_calls, faults,
                   admin_queues, portal_queues, reqs, smtp, published,
                   old_rows, batch,
                   fn_call,
                   streams, auto_sync>>

AiNext ==
    \/ \E enabled \in BOOLEAN : analyze_email_with_ai(enabled)
    \/ \E raw \in RawConfidences : AiAttempt("ok", raw)
    \/ \E outcome \in {"timeout", "no_json", "raises"} :
           AiAttempt(outcome, [numeric |-> FALSE, value |-> 0])
    \/ AiBackoff

AiSpec == Init /\ [][AiNext]_vars

\* the messages the pipeline specification delivers
PipeKinds == {"pay", "note", "meet"}

\* an invalidation that does not look at the source of the row
_should_invalidate_cache_AnySource(cached_row, created_before) == created_before

\* _should_invalidate_cache: only rows of source rules, when created before
\* the rules version; created_before is that comparison of timestamps
_should_invalidate_cache(cached_row, created_before) ==
    IF cached_row.analysis_source # "rules" THEN FALSE ELSE created_before

\* lines 111-164: rules, AI fallback, unknown fallback; the row to persist
AnalysisRow(k, ai_result) ==
    LET c == classify_with_threshold(k, TRUE)
        use_ai == c.needs_ai /\ ai_result # None
        result ==
            IF use_ai
            THEN ClassificationResult(ai_result.category, ai_result.sub_category,
                                      ai_result.confidence, ai_result.urgency,
                                      ai_result.action_required)
            ELSE c.result
    IN  IF result = None
        THEN [category |-> "unknown", sub_category |-> "unclassified",
              confidence |-> 0, analysis_source |-> "manual",
              urgency |-> "low", action_required |-> FALSE]
        ELSE [category |-> result.category, sub_category |-> result.sub_category,
              confidence |-> result.confidence,
              analysis_source |-> IF use_ai THEN "ai" ELSE "rules",
              urgency |-> result.urgency,
              action_required |-> result.action_required]

\* analyze_email(account_id, message_id, subject, sender, body) for message
\* i of account a.  ai_result is what the LLM tier returns when it is
\* asked, created_before the outcome of the timestamp comparison on the
\* cached row, raises whether the final upsert raises (it is swallowed)
analyze_email(a, i, ai_result, created_before, raises) ==
    /\ reqs < MaxReqs
    /\ i \in 1..Len(mailbox[a])
    /\ reqs' = reqs + 1
    /\ LET key == <<a, i>>
           k == mailbox[a][i]
           cached == key \in DOMAIN email_analyses
           hit == cached /\ ~_should_invalidate_cache(email_analyses[key],
                                                      created_before)
           needs_ai == classify_with_threshold(k, TRUE).needs_ai
       IN  /\ created_before =>
                  cached /\ email_analyses[key].analysis_source = "rules"
           /\ IF hit
              THEN /\ ai_result = None /\ ~raises
                   /\ UNCHANGED <<email_analyses, llm_calls, faults>>
              ELSE /\ ~needs_ai => ai_result = None
                   /\ raises => faults < MaxFaults
                   /\ llm_calls' =
                          IF needs_ai
                          THEN Append(llm_calls,
                                      [key |-> key, failed |-> ai_result = None])
                          ELSE llm_calls
                   /\ email_analyses' =
                          IF raises THEN email_analyses
                          ELSE [x \in DOMAIN email_analyses \union {key} |->
                                   IF x = key THEN AnalysisRow(k, ai_result)
                                   ELSE email_analyses[x]]
                   /\ faults' = IF raises THEN faults + 1 ELSE faults
    /\ UNCHANGED <<smtp_accounts, mailbox, accounts, stage_history, alerts,
                   scans, jobs, last_ok, admin_queues, portal_queues, svc>>

(***************************************************************************)
(* routes/analysis.py update_analysis                                      *)
(***************************************************************************)
\* the request bodies of the model: no recognised field, or a category
ReviewBodies == {EmptyFn, [category |-> "earnings"]}

\* PATCH /review/{analysis_id}; an id without a row answers 404
update_analysis(analysis_id, body) ==
    /\ reqs < MaxReqs
    /\ reqs' = reqs + 1
    /\ email_analyses' =
           IF analysis_id \in DOMAIN email_analyses /\ "category" \in DOMAIN body
           THEN [email_analyses EXCEPT
                    ![analysis_id].category = body.category,
                    ![analysis_id].analysis_source = "manual",
                    ![analysis_id].confidence = 10000]
           ELSE email_analyses
    /\ UNCHANGED <<smtp_accounts, mailbox, accounts, stage_history, alerts,
                   scans, jobs, last_ok, llm_calls, faults, admin_queues,
                   portal_queues, svc>>

\* the rows get_review_queue returns
get_review_queue ==
    {key \in DOMAIN email_analyses :
        email_analyses[key].analysis_source = "manual"}

PipeNext ==
    \/ \E a \in smtp_accounts, k \in PipeKinds : Deliver(a, k, PipeMsgs)
    \/ \E a \in smtp_accounts, i \in 1..PipeMsgs, ai \in AiResults,
          cb \in BOOLEAN, r \in BOOLEAN : analyze_email(a, i, ai, cb, r)
    \/ \E a \in smtp_accounts, i \in 1..PipeMsgs, body \in ReviewBodies :
           update_analysis(<<a, i>>, body)

PipeSpec == Init /\ [][PipeNext]_vars

\* the scanner, the pipeline and the manual review on the same rows
ReviewNext ==
    \/ ScanNext(SoloMsgs, MaxScans)
    \/ \E a \in smtp_accounts, i \in 1..SoloMsgs, ai \in AiResults,
          cb \in BOOLEAN, r \in BOOLEAN : analyze_email(a, i, ai, cb, r)
    \/ \E a \in smtp_accounts, i \in 1..SoloMsgs, body \in ReviewBodies :
           update_analysis(<<a, i>>, body)

ReviewSpec == Init /\ [][ReviewNext]_vars

(***************************************************************************)
(* analysis_pipeline.py analyze_account_emails.  Indices count from 1.     *)
(* batch.results is the dict results (the message id stands for the row's  *)
(* message_id column), batch.pending the workers that have not finished,   *)
(* batch.done the order in which the results were filled in, batch.failed  *)
(* the workers whose analyze_email raised.                                 *)
(***************************************************************************)
\* _CLASSIFIER_RULES_VERSION is moved forward with a new pattern bank: every
\* row that exists was created before it
BumpRulesVersion ==
    /\ batch.pc # "gather"
    /\ old_rows # DOMAIN email_analyses
    /\ old_rows' = DOMAIN email_analyses
    /\ UNCHANGED <<smtp_accounts, mailbox, accounts, stage_history, alerts,
                   email_analyses, scans, jobs, last_ok, llm_calls, faults,
                   admin_queues, portal_queues, reqs, ai_call, smtp, published,
                   batch,
                   fn_call,
                   streams, auto_sync>>

\* the results listed by the order in which they were filled in
InCompletionOrder(b) == [i \in 1..Len(b.msgs) |-> b.results[b.done[i]]]

\* line 291: [results[i] for i in range(len(msg_entries))]
InOriginalOrder(b) == [i \in 1..Len(b.msgs) |-> b.results[i]]

\* lines 192-229 (and 285-291 when nothing is left to process): the batch
\* lookup, then the split into valid cached rows and messages to process
analyze_account_emails(a, msgs) ==
    /\ batch.pc # "gather"
    /\ reqs < BatchCalls
    /\ reqs' = reqs + 1
    /\ LET Key(idx) == <<a, msgs[idx]>>
           hits == {idx \in 1..Len(msgs) :
                       /\ Key(idx) \in DOMAIN email_analyses
                       /\ ~_should_invalidate_cache(email_analyses[Key(idx)],
                                                    Key(idx) \in old_rows)}
           in_order == CHOOSE sq \in [1..Cardinality(hits) -> hits] :
                           \A i, j \in 1..Cardinality(hits) :
                               i < j => sq[i] < sq[j]
           b == [pc |-> IF hits = 1..Len(msgs) THEN "returned" ELSE "gather",
                 account |-> a, msgs |-> msgs,
                 results |-> [idx \in hits |->
                                 [message_id |-> msgs[idx],
                                  row |-> email_analyses[Key(idx)]]],
                 pending |-> (1..Len(msgs)) \ hits,
                 done |-> in_order, failed |-> {},
                 returned |-> <<>>, template_cache |-> EmptyFn]
       IN  batch' = IF b.pc = "returned"
                    THEN [b EXCEPT !.returned = InOriginalOrder(b)]
                    ELSE b
    /\ UNCHANGED <<smtp_accounts, mailbox, accounts, stage_history, alerts,
                   email_analyses, scans, jobs, last_ok, llm_calls, faults,
                   admin_queues, portal_queues, ai_call, smtp, published,
                   old_rows,
                   fn_call,
                   streams, auto_sync>>

\* a fallback that takes the row analyze_email stores for an unclassified
\* message
ErrorPlaceholderManual ==
    [category |-> "unknown", sub_category |-> "unclassified", confidence |-> 0,
     analysis_source |-> "manual", urgency |-> "low", action_required |-> FALSE]

\* lines 261-271: the fallback result of a worker whose analyze_email raised
ErrorPlaceholder ==
    [category |-> "unknown", sub_category |-> "error", confidence |-> 0,
     analysis_source |-> "error", urgency |-> "low", action_required |-> FALSE]

\* lines 235-272: the worker of index idx runs analyze_email to its end.
\* ai_result is what the LLM tier returns when it is asked; outcome tells
\* whether analyze_email raises, or its final upsert raises (which it
\* swallows, lines 182-189).  analyze_email puts the LLM's answer into the
\* template cache of the batch (lines 141-152) and never reads the cache.
\* The worker that finishes last ends the gather, and lines 274-291 return
\* the list.  The LLM calls of a batch are not logged in llm_calls
_process_one(idx, ai_result, outcome) ==
    /\ batch.pc = "gather"
    /\ idx \in batch.pending
    /\ outcome # "ok" => faults < MaxFaults
    /\ faults' = IF outcome = "ok" THEN faults ELSE faults + 1
    /\ LET a == batch.account
           key == <<a, batch.msgs[idx]>>
           k == mailbox[a][batch.msgs[idx]]
           needs_ai == classify_with_threshold(k, TRUE).needs_ai
           row == IF outcome = "raises" THEN ErrorPlaceholder
                  ELSE AnalysisRow(k, ai_result)
           b == [batch EXCEPT
                    !.results = (idx :> [message_id |-> batch.msgs[idx],
                                         row |-> row]) @@ @,
                    !.pending = @ \ {idx},
                    !.done = Append(@, idx),
                    !.failed = IF outcome = "raises" THEN @ \union {idx} ELSE @,
                    !.template_cache =
                        IF needs_ai /\ ai_result # None
                        THEN (make_fingerprint(k) :> row) @@ @
                        ELSE @]
       IN  /\ ~needs_ai \/ outcome = "raises" => ai_result = None
           /\ email_analyses' =
                  IF outcome = "ok"
                  THEN [x \in DOMAIN email_analyses \union {key} |->
                           IF x = key THEN row ELSE email_analyses[x]]
                  ELSE email_analyses
           /\ batch' = IF b.pending = {}
                        THEN [b EXCEPT !.pc = "returned",
                                       !.returned = InOriginalOrder(b)]
                        ELSE b
    /\ UNCHANGED <<smtp_accounts, mailbox, accounts, stage_history, alerts,
                   scans, jobs, last_ok, llm_calls, admin_queues, portal_queues,
                   reqs, ai_call, smtp, published, old_rows,
                   fn_call,
                   streams, auto_sync>>

\* messages the rules classify ("Payment processed") and messages they
\* leave to the LLM; calls with the lists of at most BatchMsgs different
\* messages of an account's mailbox; an LLM tier that answers with one
\* confidence or not at all; workers that end or raise (the swallowed
\* upsert failure is exercised by PipeSpec)
BatchNext ==
    \/ \E a \in smtp_accounts, k \in {"pay", "meet"} : Deliver(a, k, BatchMsgs)
    \/ BumpRulesVersion
    \/ \E a \in smtp_accounts, n \in 0..BatchMsgs :
           \E msgs \in {sq \in [1..n -> 1..Len(mailbox[a])] :
                             \A i, j \in 1..n : sq[i] = sq[j] => i = j} :
               analyze_account_emails(a, msgs)
    \/ \E idx \in 1..BatchMsgs,
          ai \in {r \in AiResults : r = None \/ r.confidence = 9500},
          outcome \in {"ok", "raises"} :
           _process_one(idx, ai, outcome)

BatchSpec == Init /\ [][BatchNext]_vars

(***************************************************************************)
(* The pure functions called on their own: normalize_subject on a subject  *)
(* that grows by one chunk per call; the stage detector, the body          *)
(* inspection of scan_single_account and the rule classifier on a list of  *)
(* headers that grows by one message per call.                             *)
(***************************************************************************)
SubjectChunks ==
    {"Your", "is ready", "Quick note", "1099", "2024", "$5.00", "1/2", "NUM"}

CallNormalize(w) ==
    /\ Len(fn_call.subject) < MaxChunks
    /\ fn_call.messages = <<>>
    /\ fn_call.body = <<>>
    /\ LET subject == Append(fn_call.subject, w)
       IN  fn_call' = [fn_call EXCEPT !.subject = subject,
                          !.normalized = normalize_subject(subject)]
    /\ UNCHANGED <<smtp_accounts, mailbox, accounts, stage_history, alerts,
                   email_analyses, scans, jobs, last_ok, llm_calls, faults,
                   admin_queues, portal_queues, reqs, ai_call, smtp, published,
                   old_rows, batch,
                   streams, auto_sync>>

\* the messages given to the detector, and their dates; the id of a message
\* is its place in the list
DetectKinds ==
    {"deact", "react", "both", "pay", "weekly", "bgc_ok", "bgc_adv", "idv"}

Dates == {1, 2}

\* detect_stage_with_metadata(messages), the body inspection of
\* scan_single_account on the same list, and check_bgc_body and
\* classify_email on the message that was added
CallDetect(k, date) ==
    /\ Len(fn_call.messages) < MaxHeaders
    /\ fn_call.subject = <<>>
    /\ fn_call.body = <<>>
    /\ LET id == Len(fn_call.messages) + 1
           messages == Append(fn_call.messages,
                              [id |-> id, kind |-> k, date |-> date])
       IN  fn_call' = [fn_call EXCEPT
                          !.messages = messages,
                          !.detected = detect_stage_with_metadata(messages),
                          !.inspected = DetectWithBodies(messages),
                          !.body_stage = check_bgc_body(k),
                          !.classified = classify_email(k, TRUE)]
    /\ UNCHANGED <<smtp_accounts, mailbox, accounts, stage_history, alerts,
                   email_analyses, scans, jobs, last_ok, llm_calls, faults,
                   admin_queues, portal_queues, reqs, ai_call, smtp, published,
                   old_rows, batch,
                   streams, auto_sync>>

\* ai_analyzer.py _smart_truncate (analysis_pipeline.py _smart_context is the
\* same function with the limit written out): a body is the sequence of its
\* characters' code points
max_total == 2000

head == 1500

tail == 500

_smart_truncate(body) ==
    LET marker == <<10, 46, 46, 46, 91, 116, 114, 117, 110, 99, 97, 116, 101,
                    100, 93, 46, 46, 46, 10>>
    IN  IF Len(body) <= max_total THEN body
        ELSE SubSeq(body, 1, head) \o marker
                 \o SubSeq(body, Len(body) - tail + 1, Len(body))

\* a call of _smart_truncate on a body of n printable characters
CallTruncate(n) ==
    /\ fn_call.subject = <<>>
    /\ fn_call.messages = <<>>
    /\ fn_call.body = <<>>
    /\ LET body == [i \in 1..n |-> 32 + (i % 95)]
       IN  fn_call' = [fn_call EXCEPT !.body = body,
                          !.truncated = _smart_truncate(body)]
    /\ UNCHANGED <<smtp_accounts, mailbox, accounts, stage_history, alerts,
                   email_analyses, scans, jobs, last_ok, llm_calls, faults,
                   admin_queues, portal_queues, reqs, ai_call, smtp, published,
                   old_rows, batch,
                   streams, auto_sync>>

FnNext ==
    \/ \E w \in SubjectChunks : CallNormalize(w)
    \/ \E k \in DetectKinds, date \in Dates : CallDetect(k, date)
    \/ \E n \in {1, 1999, 2000, 2001, 2600} : CallTruncate(n)

FnSpec == Init /\ [][FnNext]_vars

(***************************************************************************)
(* Properties.                                                             *)
(***************************************************************************)
\* C1: every step that changes the stored stage of an inbox raises its
\* rank; the one other change allowed is DEACTIVATED -> ACTIVE.
C1_StageWritesMonotonic ==
    [][\A a \in DOMAIN accounts :
          accounts'[a].stage # accounts[a].stage =>
              \/ STAGE_PRIORITY[accounts'[a].stage]
                     > STAGE_PRIORITY[accounts[a].stage]
              \/ /\ accounts[a].stage = "DEACTIVATED"
                 /\ accounts'[a].stage = "ACTIVE"]_vars

\* C2: when a job whose inbox is stored (and was read) as DEACTIVATED has
\* detected ACTIVE from a reactivation message and its promotion step runs
\* without an error, the step stores ACTIVE and appends the stage-history
\* row DEACTIVATED -> ACTIVE.
C2_ReactivationWritten ==
    [][\A s \in DOMAIN scans, a \in AccountIds :
          (/\ <<s, a>> \in DOMAIN jobs
           /\ jobs[<<s, a>>].pc = "promote"
           /\ jobs'[<<s, a>>].pc = "select"
           /\ accounts[a].stage = "DEACTIVATED"
           /\ scans[s].db_accounts[a].stage = "DEACTIVATED"
           /\ jobs[<<s, a>>].new_stage = "ACTIVE"
           /\ detect_stage_with_metadata(
                  Headers(a, jobs[<<s, a>>].n)).reactivated)
          => /\ accounts'[a].stage = "ACTIVE"
             /\ Len(stage_history'[a]) = Len(stage_history[a]) + 1
             /\ stage_history'[a][Len(stage_history'[a])].old_stage = "DEACTIVATED"
             /\ stage_history'[a][Len(stage_history'[a])].new_stage = "ACTIVE"]_vars

\* C3: stage-history only grows by appending, and every step that writes a
\* new stage to an inbox's row appends exactly one stage-history row for
\* that inbox, whatever fails afterwards.
C3_HistoryCountsPromotions ==
    [][\A a \in AccountIds :
          /\ Len(stage_history'[a]) >= Len(stage_history[a])
          /\ SubSeq(stage_history'[a], 1, Len(stage_history[a])) = stage_history[a]
          /\ (a \in DOMAIN accounts /\ accounts'[a].stage # accounts[a].stage)
                 => Len(stage_history'[a]) = Len(stage_history[a]) + 1]_vars

\* C4: a job of a scan that was started after every earlier scan had
\* completed, over the message set the inbox's previous job returned
\* normally from, appends no stage-history row and creates no alert.
C4_ReplayAddsNothing ==
    [][\A s \in DOMAIN scans, a \in AccountIds :
          (/\ <<s, a>> \in DOMAIN jobs
           /\ <<s, a>> \in DOMAIN jobs'
           /\ jobs[<<s, a>>].pc # "fetch"
           /\ jobs'[<<s, a>>] # jobs[<<s, a>>]
           /\ scans[s].replay_of[a] # Never
           /\ scans[s].replay_of[a] = jobs[<<s, a>>].n)
          => /\ stage_history'[a] = stage_history[a]
             /\ alerts' = alerts]_vars

\* C5: at no time are two per-inbox jobs of one inbox in flight.
C5_OneJobPerInbox ==
    \A a \in AccountIds :
        Cardinality({s \in DOMAIN scans :
                        /\ <<s, a>> \in DOMAIN jobs
                        /\ jobs[<<s, a>>].pc \notin {"returned", "raised"}}) <= 1

C7_PromotionEmitsEvent ==
    [][\A a \in AccountIds :
          Len(stage_history'[a]) = Len(stage_history[a]) + 1 =>
              LET row == stage_history'[a][Len(stage_history'[a])]
                  after == notify_stage_change(Email(a), row.old_stage,
                                               row.new_stage)
              IN  /\ admin_queues' = after.admin
                  /\ portal_queues' = after.portal]_vars

\* C8: every persisted classification row has a confidence in [0, 1], and
\* every row of source manual has confidence 1.0.
C8_ConfidenceRange ==
    \A key \in DOMAIN email_analyses :
        /\ email_analyses[key].confidence >= 0
        /\ email_analyses[key].confidence <= 10000
        /\ email_analyses[key].analysis_source = "manual"
               => email_analyses[key].confidence = 10000

\* C9: when a step calls the LLM for a message, the LLM returns nothing,
\* and the step persists the message's row, the row has category unknown
\* and source manual (it is in the review queue).
C9_LlmFailureToReview ==
    [][\A key \in DOMAIN email_analyses' :
          (/\ Len(llm_calls') = Len(llm_calls) + 1
           /\ llm_calls'[Len(llm_calls')] = [key |-> key, failed |-> TRUE]
           /\ (key \notin DOMAIN email_analyses
                  \/ email_analyses'[key] # email_analyses[key]))
          => /\ email_analyses'[key].category = "unknown"
             /\ email_analyses'[key].analysis_source = "manual"
             /\ key \in get_review_queue']_vars

\* C10: no row of source rules is persisted with a confidence below the
\* threshold unless the LLM was called for its message.
C10_LlmBeforeSubThresholdRow ==
    \A key \in DOMAIN email_analyses :
        (/\ email_analyses[key].analysis_source = "rules"
         /\ email_analyses[key].confidence < CONFIDENCE_THRESHOLD)
        => \E n \in DOMAIN llm_calls : llm_calls[n].key = key

\* C11: the rows of one scan whose messages have the same fingerprint have
\* the same (category, sub_category), and their sources agree up to the
\* _dedup suffix, whichever inbox and job persisted them.
C11_SameTemplateSameClass ==
    LET Base(source) ==
            CASE source = "rules_dedup" -> "rules"
              [] source = "ai_dedup" -> "ai"
              [] OTHER -> source
        Fp(key) == make_fingerprint(mailbox[key[1]][key[2]])
    IN  \A k1, k2 \in DOMAIN email_analyses :
            Fp(k1) = Fp(k2) =>
                /\ email_analyses[k1].category = email_analyses[k2].category
                /\ email_analyses[k1].sub_category = email_analyses[k2].sub_category
                /\ Base(email_analyses[k1].analysis_source)
                       = Base(email_analyses[k2].analysis_source)

\* C11 witness: "Your 1099 is ready" in one inbox and "Your 5555 is ready"
\* in the other are both persisted, one from the rules and one from the
\* template cache.
C11_Witness ==
    \E k1, k2 \in DOMAIN email_analyses :
        /\ k1[1] # k2[1]
        /\ mailbox[k1[1]][k1[2]] = "tax"
        /\ mailbox[k2[1]][k2[2]] = "num"
        /\ email_analyses[k1].analysis_source = "rules_dedup"
        /\ email_analyses[k2].analysis_source = "rules"

C13_RateLimitLoop ==
    LET log == smtp.log
        n == Len(log)
        slept == smtp.slept
        Limited(i) == log[i] = 429
    IN  /\ n <= 3
        /\ \A i \in 1..(n - 1) : Limited(i)
        /\ slept = SubSeq(<<2, 5, 15>>, 1, Len(slept))
        /\ smtp.pc = "request" => Len(slept) = n /\ n < 3
        /\ smtp.pc = "sleep" => Limited(n) /\ Len(slept) = n - 1
        /\ smtp.pc = "idle" /\ n > 0 =>
               /\ Limited(n) <=> smtp.outcome = "rate_limited"
               /\ Limited(n) => n = 3 /\ slept = <<2, 5, 15>>
               /\ ~Limited(n) =>
                      /\ Len(slept) = n - 1
                      /\ smtp.outcome = IF log[n] = 200 THEN "json"
                                        ELSE "http_error"

\* C13 witness: a call that was answered 429 three times and failed with
\* the rate-limit error after sleeping 2 s, 5 s and 15 s.
C13_Witness ==
    /\ smtp.pc = "idle"
    /\ smtp.log = <<429, 429, 429>>
    /\ smtp.slept = <<2, 5, 15>>
    /\ smtp.outcome = "rate_limited"

\* C14: a get_all_accounts that is answered from the cache is never the
\* first one after a completed create_account or update_password.
C14_MutationInvalidates ==
    [][(reqs' # reqs /\ smtp'.op = "get_all_accounts" /\ smtp'.served = "cache")
           => ~smtp.mutated]_vars

\* C15: a publish step ends at once: each registered queue the event is
\* for that holds 50 events is removed from the registry, each other one
\* gets the event appended; no registered queue ever holds more than 50.
C15_FullQueueDropped ==
    [][LET event == published'.event
           Fanned(before, after) ==
               \A q \in DOMAIN before :
                   IF Len(before[q]) >= 50
                   THEN q \notin DOMAIN after
                   ELSE q \in DOMAIN after /\ after[q] = Append(before[q], event)
       IN  /\ \A q \in DOMAIN admin_queues' : Len(admin_queues'[q]) <= 50
           /\ \A e \in DOMAIN portal_queues' :
                  \A q \in DOMAIN portal_queues'[e] :
                      Len(portal_queues'[e][q]) <= 50
           /\ published' # published =>
                  /\ Fanned(admin_queues, admin_queues')
                  /\ event.data.email \in DOMAIN portal_queues =>
                         Fanned(portal_queues[event.data.email],
                                portal_queues'[event.data.email])]_vars

\* C15 witness: the last publish removed a full queue, and a queue that is
\* still registered received its event.
C15_Witness ==
    /\ published.dropped # {}
    /\ \E q \in DOMAIN admin_queues :
           /\ admin_queues[q] # <<>>
           /\ admin_queues[q][Len(admin_queues[q])] = published.event

\* C16: a published event is appended to every registered admin queue that
\* is not full; every event of a portal queue registered under email e is
\* a new_email or stage_change event of e.
C16_AdminAllPortalOwn ==
    [][/\ published' # published =>
              \A q \in DOMAIN admin_queues :
                  Len(admin_queues[q]) < 50 =>
                      /\ q \in DOMAIN admin_queues'
                      /\ admin_queues'[q]
                             = Append(admin_queues[q], published'.event)
       /\ \A e \in DOMAIN portal_queues' :
              \A q \in DOMAIN portal_queues'[e], i \in 1..50 :
                  i <= Len(portal_queues'[e][q]) =>
                  /\ portal_queues'[e][q][i].type \in {"new_email", "stage_change"}
                  /\ portal_queues'[e][q][i].data.email = e]_vars

\* C16 witness: an admin queue holds an event of inbox 1, an alert and an
\* event of inbox 2; a portal queue of inbox 1 that was registered before
\* the three were published holds the first alone.
C16_Witness ==
    \E q1, q2 \in QueueIds :
        /\ q1 \in DOMAIN admin_queues
        /\ Len(admin_queues[q1]) = 3
        /\ admin_queues[q1][1].type = "new_email"
        /\ admin_queues[q1][1].data.email = Email(1)
        /\ admin_queues[q1][2].type = "alert"
        /\ admin_queues[q1][3].type = "stage_change"
        /\ admin_queues[q1][3].data.email = Email(2)
        /\ Email(1) \in DOMAIN portal_queues
        /\ q2 \in DOMAIN portal_queues[Email(1)]
        /\ portal_queues[Email(1)][q2] = <<admin_queues[q1][1]>>

\* C17: a call of analyze_account_emails that has returned has returned
\* one result per input message, the i-th result being that of the i-th
\* message, whatever the order in which the results were filled in.
C17_ResultsInInputOrder ==
    batch.pc = "returned" =>
        /\ Len(batch.returned) = Len(batch.msgs)
        /\ \A i \in 1..Len(batch.msgs) :
               /\ batch.returned[i].message_id = batch.msgs[i]
               /\ batch.returned[i] = batch.results[i]

\* C17 witness: a returned call of two different messages whose second
\* result was filled in before the first.
C17_Witness ==
    /\ batch.pc = "returned"
    /\ Len(batch.msgs) = 2
    /\ batch.msgs[1] # batch.msgs[2]
    /\ batch.done = <<2, 1>>

C19_StaleOnlyOldRules ==
    [][reqs' # reqs =>
          \A idx \in 1..Len(batch'.msgs) :
              LET key == <<batch'.account, batch'.msgs[idx]>>
              IN  key \in DOMAIN email_analyses =>
                      IF /\ email_analyses[key].analysis_source = "rules"
                         /\ key \in old_rows
                      THEN idx \in batch'.pending
                      ELSE /\ idx \notin batch'.pending
                           /\ batch'.results[idx].row = email_analyses[key]]_vars

\* C19 witness: a call in progress that re-classifies an old row of source
\* rules and has taken an old row of another source from the cache.
C19_Witness ==
    /\ batch.pc = "gather"
    /\ \E i, j \in 1..Len(batch.msgs) :
           LET ki == <<batch.account, batch.msgs[i]>>
               kj == <<batch.account, batch.msgs[j]>>
           IN  /\ i \in batch.pending /\ j \notin batch.pending
               /\ ki \in old_rows /\ kj \in old_rows
               /\ ki \in DOMAIN email_analyses
               /\ email_analyses[ki].analysis_source = "rules"
               /\ email_analyses[kj].analysis_source \in {"ai", "manual"}
               /\ batch.results[j].row = email_analyses[kj]

C21_EndedScanIsTerminal ==
    \A s \in DOMAIN scans :
        scans[s].pc = "done" => scans[s].status \in {"completed", "failed"}

\* C22: normalize_subject is idempotent: normalising a normalised subject
\* gives the same subject.
C22_NormalizeIdempotent ==
    normalize_subject(fn_call.normalized) = fn_call.normalized

\* C23 as stated: when, newest first, the detector reaches a message whose
\* subject matches a deactivation pattern and no newer message is a
\* reactivation, it returns DEACTIVATED with that message as trigger and an
\* empty body-check list.
C23_DeactivationShortCircuit ==
    LET ms == fn_call.messages
        Before(i, j) == ms[i].date > ms[j].date
                            \/ (ms[i].date = ms[j].date /\ i < j)
        hits == {i \in DOMAIN ms :
                    /\ ms[i].kind \in DeactivationMatch
                    /\ \A j \in DOMAIN ms :
                           Before(j, i) => ms[j].kind \notin ReactivationMatch}
    IN  hits # {} =>
            LET first == CHOOSE i \in hits : \A j \in hits : j = i \/ Before(i, j)
            IN  /\ fn_call.detected.stage = "DEACTIVATED"
                /\ fn_call.detected.trigger = ms[first].id
                /\ fn_call.detected.needs_body_check = <<>>

\* C23 amended: the same for a message whose subject matches a deactivation
\* pattern and no reactivation pattern.
C23_DeactivationOnlyShortCircuit ==
    LET ms == fn_call.messages
        Before(i, j) == ms[i].date > ms[j].date
                            \/ (ms[i].date = ms[j].date /\ i < j)
        hits == {i \in DOMAIN ms :
                    /\ ms[i].kind \in DeactivationMatch \ ReactivationMatch
                    /\ \A j \in DOMAIN ms :
                           Before(j, i) => ms[j].kind \notin ReactivationMatch}
    IN  hits # {} =>
            LET first == CHOOSE i \in hits : \A j \in hits : j = i \/ Before(i, j)
            IN  /\ fn_call.detected.stage = "DEACTIVATED"
                /\ fn_call.detected.trigger = ms[first].id
                /\ fn_call.detected.needs_body_check = <<>>

\* C23 witness: a deactivation with a newer BGC-complete message and an
\* older payment message; the detector returned DEACTIVATED with the
\* deactivation as trigger and no body check.
C23_Witness ==
    /\ Len(fn_call.messages) = 3
    /\ fn_call.messages[1] = [id |-> 1, kind |-> "pay", date |-> 1]
    /\ fn_call.messages[2] = [id |-> 2, kind |-> "deact", date |-> 2]
    /\ fn_call.messages[3] = [id |-> 3, kind |-> "bgc_ok", date |-> 2]
    /\ fn_call.detected.stage = "DEACTIVATED"
    /\ fn_call.detected.trigger = 2
    /\ fn_call.detected.needs_body_check = <<>>

\* C24 as stated: when the list holds a deactivation message and a
\* reactivation message dated later than it, the detector returns ACTIVE with
\* a reactivation message as trigger and reactivated = true.
C24_ReactivationWins ==
    LET ms == fn_call.messages
        R == {i \in DOMAIN ms : ms[i].kind \in ReactivationMatch}
        D == {i \in DOMAIN ms : ms[i].kind \in DeactivationMatch \ ReactivationMatch}
    IN  (\E i \in D : \E j \in R : ms[j].date > ms[i].date) =>
            /\ fn_call.detected.stage = "ACTIVE"
            /\ fn_call.detected.trigger \in R
            /\ fn_call.detected.reactivated

\* C24 amended: when the list holds a deactivation message and every
\* deactivation message comes, newest first, after some reactivation
\* message, the detector returns ACTIVE with reactivated = true, and the
\* trigger is the newest message that is a reactivation or an active signal.
C24_ReactivationBeforeEveryDeactivation ==
    LET ms == fn_call.messages
        Before(i, j) == ms[i].date > ms[j].date
                            \/ (ms[i].date = ms[j].date /\ i < j)
        R == {i \in DOMAIN ms : ms[i].kind \in ReactivationMatch}
        D == {i \in DOMAIN ms : ms[i].kind \in DeactivationMatch \ ReactivationMatch}
        A == {i \in DOMAIN ms : ms[i].kind \in ReactivationMatch \union ActiveMatch}
    IN  (D # {} /\ \A i \in D : \E j \in R : Before(j, i)) =>
            /\ fn_call.detected.stage = "ACTIVE"
            /\ fn_call.detected.reactivated
            /\ fn_call.detected.trigger
                   = CHOOSE i \in A : \A j \in A : j = i \/ Before(i, j)

\* C24 witness: a deactivation, a later reactivation and a payment message
\* of the reactivation's date listed before it: ACTIVE, reactivated, and the
\* payment message is the trigger.
C24_Witness ==
    /\ Len(fn_call.messages) = 3
    /\ fn_call.messages[1] = [id |-> 1, kind |-> "deact", date |-> 1]
    /\ fn_call.messages[2] = [id |-> 2, kind |-> "pay", date |-> 2]
    /\ fn_call.messages[3] = [id |-> 3, kind |-> "react", date |-> 2]
    /\ fn_call.detected.stage = "ACTIVE"
    /\ fn_call.detected.reactivated
    /\ fn_call.detected.trigger = 2

C26_WeeklyPayIsActive ==
    LET ms == fn_call.messages
    IN  (/\ \E i \in DOMAIN ms : ms[i].kind = "weekly"
         /\ \A i \in DOMAIN ms : ms[i].kind \notin DeactivationMatch) =>
            fn_call.detected.stage = "ACTIVE"

\* C28: the body inspection leaves the detected stage as it is, or takes it
\* from BGC_CLEAR to BGC_CONSIDER when the body of a deferred BGC-complete
\* message matches an adverse-action pattern; the rank never falls.
C28_BodyInspectionNeverDemotes ==
    LET d == detect_stage_from_messages(fn_call.messages)
        r == fn_call.inspected
    IN  fn_call.messages # <<>> =>
            /\ STAGE_PRIORITY[r.stage] >= STAGE_PRIORITY[d.stage]
            /\ \/ r.stage = d.stage /\ r.trigger = d.trigger
               \/ /\ d.stage = "BGC_CLEAR"
                  /\ r.stage = "BGC_CONSIDER"
                  /\ \E i \in DOMAIN d.needs_body_check :
                         /\ d.needs_body_check[i].kind \in BgcConsiderBodyMatch
                         /\ r.trigger = d.needs_body_check[i].id

\* C28 witness: two BGC-complete messages were deferred, the detector
\* returned BGC_CLEAR, and the adverse body of the second gave BGC_CONSIDER
\* with that message as trigger.
C28_Witness ==
    /\ Len(fn_call.messages) = 2
    /\ fn_call.messages[1].kind = "bgc_ok"
    /\ fn_call.messages[2].kind = "bgc_adv"
    /\ fn_call.detected.stage = "BGC_CLEAR"
    /\ fn_call.inspected.stage = "BGC_CONSIDER"
    /\ fn_call.inspected.trigger = 2

\* C29: for a BGC-complete message the classifier returns sub_category
\* consider exactly when check_bgc_body returns BGC_CONSIDER.
C29_ClassifierAgreesWithBodyCheck ==
    fn_call.messages # <<>> =>
        LET k == fn_call.messages[Len(fn_call.messages)].kind
        IN  k \in BgcCompleteMatch =>
                /\ fn_call.classified.category = "bgc"
                /\ fn_call.classified.sub_category = "consider"
                       <=> fn_call.body_stage = "BGC_CONSIDER"

\* C27 as stated: a step of a per-inbox job whose detected stage does not
\* outrank the stage the orchestrator read for the inbox leaves the stage,
\* the stage history and the alerts as they are.
C27_UnpromotedJobWritesNothing ==
    [][\A key \in DOMAIN jobs \intersect DOMAIN jobs' :
          LET s == key[1]
              a == key[2]
          IN  (/\ jobs'[key] # jobs[key]
               /\ jobs'[key].pc # "fetch"
               /\ a \in DOMAIN scans[s].db_accounts
               /\ STAGE_PRIORITY[jobs'[key].new_stage]
                      <= STAGE_PRIORITY[scans[s].db_accounts[a].stage]) =>
                  /\ accounts'[a].stage = accounts[a].stage
                  /\ stage_history'[a] = stage_history[a]
                  /\ alerts' = alerts]_vars

\* C27 amended: such a step leaves the stage and the stage history as they
\* are and inserts no stage alert; the only alerts it may insert are those
\* of the classification of the recent messages.
C27_UnpromotedJobKeepsStage ==
    [][\A key \in DOMAIN jobs \intersect DOMAIN jobs' :
          LET s == key[1]
              a == key[2]
          IN  (/\ jobs'[key] # jobs[key]
               /\ jobs'[key].pc # "fetch"
               /\ a \in DOMAIN scans[s].db_accounts
               /\ STAGE_PRIORITY[jobs'[key].new_stage]
                      <= STAGE_PRIORITY[scans[s].db_accounts[a].stage]) =>
                  /\ accounts'[a].stage = accounts[a].stage
                  /\ stage_history'[a] = stage_history[a]
                  /\ \A row \in BagToSet(alerts' (-) alerts) :
                         /\ row.title[2] \notin Stages
                         /\ <<row.title[2], row.title[3]>> \in AlertKeys]_vars

\* C27 witness: a job over one message that signals no stage has compared
\* REGISTERED with the stored REGISTERED and gone on to the classification;
\* the inbox row has its stage and no history.
C27_Witness ==
    \E key \in DOMAIN jobs :
        /\ jobs[key].pc = "classify"
        /\ jobs[key].n = 1
        /\ jobs[key].new_stage = "REGISTERED"
        /\ ~jobs[key].stage_changed
        /\ mailbox[key[2]] = <<"viol">>
        /\ accounts[key[2]].stage = "REGISTERED"
        /\ stage_history[key[2]] = <<>>

\* C30: a worker of the pipeline that finds the fingerprint of its message
\* in the template cache, and does not raise, returns and stores the cached
\* blob with its source suffixed _dedup, without running the rules or the
\* LLM.
C30_PipelineCacheHitShortCircuits ==
    [][\A idx \in batch.pending :
          LET k == mailbox[batch.account][batch.msgs[idx]]
              cache == batch.template_cache
          IN  (/\ batch.pc = "gather"
               /\ idx \in DOMAIN batch'.results
               /\ idx \notin batch'.failed
               /\ make_fingerprint(k) \in DOMAIN cache) =>
                  batch'.results[idx].row
                      = [cache[make_fingerprint(k)] EXCEPT
                            !.analysis_source = DedupSource(@)]]_vars

\* C35 as stated: when the list holds a reactivation message and a
\* deactivation message dated later than it, the detector returns
\* DEACTIVATED.
C35_LaterDeactivationWins ==
    LET ms == fn_call.messages
        R == {i \in DOMAIN ms : ms[i].kind \in ReactivationMatch}
        D == {i \in DOMAIN ms : ms[i].kind \in DeactivationMatch \ ReactivationMatch}
    IN  (\E i \in R : \E j \in D : ms[j].date > ms[i].date) =>
            fn_call.detected.stage = "DEACTIVATED"

\* C35 amended: when the list holds a reactivation message and a
\* deactivation message that comes, newest first, before every reactivation
\* message, the detector returns DEACTIVATED and does not report a
\* reactivation; a reactivation overrides exactly the deactivations that
\* come after it in that order.
C35_DeactivationBeforeEveryReactivation ==
    LET ms == fn_call.messages
        Before(i, j) == ms[i].date > ms[j].date
                            \/ (ms[i].date = ms[j].date /\ i < j)
        R == {i \in DOMAIN ms : ms[i].kind \in ReactivationMatch}
        D == {i \in DOMAIN ms : ms[i].kind \in DeactivationMatch \ ReactivationMatch}
    IN  /\ (R # {} /\ \E j \in D : \A i \in R : Before(j, i)) =>
            /\ fn_call.detected.stage = "DEACTIVATED"
            /\ ~fn_call.detected.reactivated
        /\ (R # {} /\ D # {} /\ fn_call.detected.stage = "DEACTIVATED") =>
            \E j \in D : \A i \in R : Before(j, i)

\* C35 witness: a reactivation, a deactivation dated later than it and an
\* older payment message; the detector returned DEACTIVATED with the
\* deactivation as trigger.
C35_Witness ==
    /\ Len(fn_call.messages) = 3
    /\ fn_call.messages[1] = [id |-> 1, kind |-> "react", date |-> 1]
    /\ fn_call.messages[2] = [id |-> 2, kind |-> "deact", date |-> 2]
    /\ fn_call.messages[3] = [id |-> 3, kind |-> "pay", date |-> 1]
    /\ fn_call.detected.stage = "DEACTIVATED"
    /\ fn_call.detected.trigger = 2
    /\ ~fn_call.detected.reactivated

\* C36: among the rows the jobs of one scan store, at most one per
\* fingerprint has a source without the _dedup suffix; it is the rule
\* classifier's row that filled the scan's template cache, and every other
\* row stored for the fingerprint is the cache entry with a _dedup source.
C36_OneRuleRowPerFingerprint ==
    LET Fp(key) == make_fingerprint(mailbox[key[1]][key[2]])
        Dedup(key) == email_analyses[key].analysis_source
                          \in {"rules_dedup", "ai_dedup"}
    IN  \A k1 \in DOMAIN email_analyses :
            /\ ~Dedup(k1) =>
                  \A k2 \in DOMAIN email_analyses :
                      (k2 # k1 /\ Fp(k2) = Fp(k1)) => Dedup(k2)
            /\ \A s \in DOMAIN scans :
                  scans[s].pc # "done" =>
                      /\ Fp(k1) \in DOMAIN scans[s].template_cache
                      /\ email_analyses[k1] =
                             [scans[s].template_cache[Fp(k1)] EXCEPT
                                 !.analysis_source =
                                     IF Dedup(k1) THEN DedupSource(@) ELSE @]

\* C36 witness: two jobs of the scan are both inside their classification
\* loops; one stored "Your 1099 is ready" from the rules and the other
\* stored "Your 5555 is ready" of the other inbox from the template cache.
C36_Witness ==
    \E s \in DOMAIN scans : \E k1, k2 \in DOMAIN email_analyses :
        /\ k1[1] # k2[1]
        /\ <<s, k1[1]>> \in DOMAIN jobs /\ Job(s, k1[1]).pc = "classify"
        /\ <<s, k2[1]>> \in DOMAIN jobs /\ Job(s, k2[1]).pc = "classify"
        /\ mailbox[k1[1]][k1[2]] = "tax"
        /\ mailbox[k2[1]][k2[2]] = "num"
        /\ email_analyses[k1].analysis_source = "rules"
        /\ email_analyses[k2].analysis_source = "rules_dedup"

\* C39: when the one scan has completed, its transitions counter equals the
\* number of stage-history rows appended during the scan, also when a job
\* promoted the stage and raised in a later step.
C39_TransitionsCountHistoryRows ==
    \A s \in DOMAIN scans :
        scans[s].status = "completed" =>
            scans[s].transitions
                = Len(stage_history[1]) + Len(stage_history[2])

\* C34: the smart-truncated body is at most 2,000 characters long; a body of
\* at most 2,000 characters is returned unchanged, and a longer one becomes
\* its first 1,500 characters, the marker and its last 500 characters.
C34_TruncatedWithinLimit ==
    LET body == fn_call.body
        n == Len(body)
        out == fn_call.truncated
    IN  /\ Len(out) <= max_total
        /\ n <= max_total => out = body
        /\ n > max_total =>
               /\ SubSeq(out, 1, head) = SubSeq(body, 1, head)
               /\ SubSeq(out, Len(out) - tail + 1, Len(out))
                      = SubSeq(body, n - tail + 1, n)

\* C38: once create_account has returned, the TTL cache holds no account
\* list that was fetched before the creation: a cached list is the
\* provider's list, also when the fetch overlapped the creation.
C38_NoStaleListCached ==
    smtp.all_accounts # <<>> => smtp.all_accounts[1] = smtp_accounts

\* C40: a row set by manual review (source manual, confidence 1.0) is
\* changed by no step of a pipeline run and by no step of a scanner job that
\* read the existing rows when the row was there; the steps that change it
\* are another manual review, or a job that had read the rows before the
\* row existed and so before the review.
C40_ManualRowKept ==
    [][\A key \in DOMAIN email_analyses :
          (/\ email_analyses[key].analysis_source = "manual"
           /\ email_analyses[key].confidence = 10000
           /\ email_analyses'[key] # email_analyses[key])
          => \/ /\ reqs' # reqs
                /\ llm_calls' = llm_calls
                /\ email_analyses'[key] \in
                       {[email_analyses[key] EXCEPT !.category = body.category] :
                            body \in ReviewBodies \ {EmptyFn}}
             \/ \E s \in DOMAIN scans :
                    /\ <<s, key[1]>> \in DOMAIN jobs
                    /\ Job(s, key[1]).pc = "classify"
                    /\ key[2] \notin Job(s, key[1]).already
                    /\ jobs' # jobs]_vars

\* C40 witness: the row of a message was set by manual review, and a
\* scanner job that found the row has gone through its classification loop
\* and returned, leaving the row as the review set it.
C40_Witness ==
    \E s \in DOMAIN scans :
        /\ <<s, 1>> \in DOMAIN jobs
        /\ Job(s, 1).pc = "returned"
        /\ Job(s, 1).already = {1}
        /\ <<1, 1>> \in DOMAIN email_analyses
        /\ email_analyses[<<1, 1>>].analysis_source = "manual"
        /\ email_analyses[<<1, 1>>].confidence = 10000
        /\ email_analyses[<<1, 1>>].category = "earnings"
        /\ mailbox[1][1] = "deact"

\* C32: a queue whose client has disconnected is eventually unsubscribed by
\* its connection's generate(), and a queue whose generate() has ended is
\* in no set of the registry, so no later broadcast reaches it.
C32_DisconnectedQueueRemoved ==
    /\ \A q \in QueueIds : (q \in streams.gone) ~> (q \in streams.ended)
    /\ [](\A q \in streams.ended :
             /\ q \notin DOMAIN admin_queues
             /\ \A e \in DOMAIN portal_queues : q \notin DOMAIN portal_queues[e])

\* C32 witness: the portal connection of queue 1 has ended after its client
\* disconnected, its email has no entry left in the registry, and the admin
\* queue 2 holds an event.
C32_Witness ==
    /\ 1 \in streams.ended
    /\ Email(1) \notin DOMAIN portal_queues
    /\ 2 \in DOMAIN admin_queues
    /\ Len(admin_queues[2]) = 1
    /\ published.event # None

\* C33: a step of the auto-sync task that logs an error leaves the task at
\* the sleep of the next iteration; the task ends only by the cancellation
\* at shutdown; and no step of the task writes a stage, a stage-history
\* row, a classification or an alert: it only inserts rows for provider
\* accounts, as REGISTERED.
C33_AutoSyncKeepsRunning ==
    [][auto_sync' # auto_sync =>
          /\ auto_sync'.errors # auto_sync.errors => auto_sync'.pc = "sleep"
          /\ auto_sync'.pc \notin {"sleep", "select", "insert"} =>
                 /\ auto_sync'.pc = "cancelled"
                 /\ auto_sync'.errors = auto_sync.errors
                 /\ faults' = faults
          /\ stage_history' = stage_history
          /\ email_analyses' = email_analyses
          /\ alerts' = alerts
          /\ \A a \in DOMAIN accounts' :
                 IF a \in DOMAIN accounts THEN accounts'[a] = accounts[a]
                 ELSE a \in smtp_accounts /\ accounts'[a].stage = "REGISTERED"]_vars

\* C33 witness: one call of the loop raised and was logged, and the loop
\* went on: over its two iterations it inserted both provider accounts and
\* is asleep again.
C33_Witness ==
    /\ auto_sync.pc = "sleep"
    /\ auto_sync.errors = 1
    /\ faults = 1
    /\ auto_sync.iterations = 2
    /\ Len(auto_sync.inserted) = 2

InFlight == {key \in DOMAIN jobs : jobs[key].pc \notin {"returned", "raised"}}

\* C31: the scanner processes inboxes in batches of at most 10, so in every
\* reachable state at most 10 per-inbox jobs are in flight.
C31_AtMostTenJobsInFlight == Cardinality(InFlight) <= BATCH_SIZE

\* C31, within one scan: at most 10 jobs of the scan exist; a job is launched
\* only when no job of the scan is left from the previous batch, and a job
\* leaves only finished; the counters scanned, errors and transitions change
\* only in a step before which every job of the scan has finished and after
\* which the scan has no job.
C31_WithinOneScan ==
    [][\A s \in DOMAIN scans :
          LET of_scan == {key \in DOMAIN jobs : key[1] = s}
              of_scan_next == {key \in DOMAIN jobs' : key[1] = s}
          IN  /\ Cardinality(of_scan_next) <= BATCH_SIZE
              /\ of_scan_next \ of_scan # {} => of_scan = {}
              /\ \A key \in of_scan \ of_scan_next :
                     jobs[key].pc \in {"returned", "raised"}
              /\ (\/ scans'[s].scanned # scans[s].scanned
                  \/ scans'[s].errors # scans[s].errors
                  \/ scans'[s].transitions # scans[s].transitions)
                 => /\ of_scan \intersect InFlight = {}
                    /\ of_scan_next = {}]_vars

====
